---- MODULE Spec2Model ----
(***************************************************************************)
(* Model of the message-turn pipeline of the Spectraflex concierge:        *)
(* chat_ws (src/app.py) with the limiters of src/rate_limit.py, the        *)
(* content filter of src/guardrails.py and the helpers it calls.           *)
(*                                                                         *)
(* Texts are sequences of one-character strings, so that lower(), `in`,    *)
(* startswith(), strip() and the competitor regex are computed as the      *)
(* code computes them.  Characters outside ASCII are written with an ASCII *)
(* stand-in: the typographic apostrophe is "^", the em dash is "-", and    *)
(* emoji are left out.                                                     *)
(*                                                                         *)
(* Similarity scores are in hundredths (0.20 is 20).                       *)
(***************************************************************************)
EXTENDS Integers, Sequences, FiniteSets, TLC

(***************************************************************************)
(* Text primitives (Python str methods and the re module).                 *)
(***************************************************************************)
UpperCase ==
    <<"A","B","C","D","E","F","G","H","I","J","K","L","M","N","O","P","Q","R",
      "S","T","U","V","W","X","Y","Z">>

LowerCase ==
    <<"a","b","c","d","e","f","g","h","i","j","k","l","m","n","o","p","q","r",
      "s","t","u","v","w","x","y","z">>

Digits == {"0","1","2","3","4","5","6","7","8","9"}

Range(f) == {f[i] : i \in DOMAIN f}

SetMin(S) == CHOOSE x \in S : \A y \in S : x <= y

SetMax(S) == CHOOSE x \in S : \A y \in S : x >= y

\* the lower-case letter of each upper-case letter
ToLower ==
    [ch \in Range(UpperCase) |->
        LowerCase[CHOOSE i \in DOMAIN UpperCase : UpperCase[i] = ch]]

\* str.lower() on one character
LowerChar(ch) == IF ch \in DOMAIN ToLower THEN ToLower[ch] ELSE ch

\* str.lower()
Lower(s) == [i \in 1..Len(s) |-> LowerChar(s[i])]

\* regex \s and str.strip() whitespace
IsSpace(ch) == ch \in {" ", "\t", "\n", "\r"}

WordChars == Range(UpperCase) \cup Range(LowerCase) \cup Digits \cup {"_"}

\* regex \w
IsWordChar(ch) == ch \in WordChars

\* the text w stands at position i of t
LitAt(t, i, w) ==
    /\ i >= 1
    /\ i + Len(w) - 1 <= Len(t)
    /\ SubSeq(t, i, i + Len(w) - 1) = w

\* the text w stands at position i of t, letter case ignored (re.I); w is
\* in lower case
LitAtI(t, i, w) ==
    /\ i >= 1
    /\ i + Len(w) - 1 <= Len(t)
    /\ \A k \in 1..Len(w) : LowerChar(t[i + k - 1]) = w[k]

\* Python: needle in hay
Contains(hay, needle) == \E i \in 1..(Len(hay) + 1) : LitAt(hay, i, needle)

\* str.startswith(p)
StartsWith(s, p) == LitAt(s, 1, p)

\* str.strip()
Strip(s) ==
    LET keep == {i \in 1..Len(s) : ~IsSpace(s[i])}
    IN  IF keep = {} THEN <<>> ELSE SubSeq(s, SetMin(keep), SetMax(keep))

\* regex \b at the gap before position p (p in 1..Len(t)+1)
BoundaryAt(t, p) ==
    LET before == p - 1 >= 1 /\ p - 1 <= Len(t) /\ IsWordChar(t[p - 1])
        after  == p >= 1 /\ p <= Len(t) /\ IsWordChar(t[p])
    IN  before # after

\* regex \s* from position i: the first position that holds no whitespace
SkipSpaces(t, i) ==
    SetMin({j \in i..(Len(t) + 1) : j = Len(t) + 1 \/ ~IsSpace(t[j])})

KW_DOSAGE ==
    <<"d","o","s","a","g","e">>

KW_PRESCRIPTION ==
    <<"p","r","e","s","c","r","i","p","t","i","o","n">>

KW_LAWSUIT ==
    <<"l","a","w","s","u","i","t">>

KW_BOMB ==
    <<"b","o","m","b">>

KW_WEAPON ==
    <<"w","e","a","p","o","n">>

W_CART ==
    <<"c","a","r","t">>

W_ADD ==
    <<"a","d","d">>

W_BUY ==
    <<"b","u","y">>

W_PURCHASE ==
    <<"p","u","r","c","h","a","s","e">>

H_DONT ==
    <<"i"," ","d","o","n","'","t"," ","k","n","o","w">>

H_DONOT ==
    <<"i"," ","d","o"," ","n","o","t"," ","k","n","o","w">>

H_UNSURE ==
    <<"u","n","s","u","r","e">>

B_MOGAMI ==
    <<"m","o","g","a","m","i">>

B_PLANET ==
    <<"p","l","a","n","e","t">>

B_WAVES ==
    <<"w","a","v","e","s">>

B_HOSA ==
    <<"h","o","s","a">>

B_D ==
    <<"d">>

B_ADDARIO ==
    <<"a","d","d","a","r","i","o">>

B_FENDER ==
    <<"f","e","n","d","e","r">>

B_ERNIE ==
    <<"e","r","n","i","e">>

B_BALL ==
    <<"b","a","l","l">>


(***************************************************************************)
(* Inputs: the texts clients send and the completion service returns.      *)
(***************************************************************************)
M_CABLE ==
    <<"T","S"," ","c","a","b","l","e","?">>

M_BOMB ==
    <<"a"," ","B","O","M","B">>

M_CART ==
    <<"A","d","d"," ","t","o"," ","c","a","r","t">>

A_OK ==
    <<"T","S",","," ","n","o"," ","f","e","n","d","e","r","s">>

A_HEDGE ==
    <<" ","U","n","s","u","r","e",".">>

A_BRAND ==
    <<"E","r","n","i","e"," "," ","B","a","l","l","!">>

URL_1 ==
    <<"h","t","t","p","s",":","/","/","s","h","o","p","/","c","o","/","1">>

URL_2 ==
    <<"h","t","t","p","s",":","/","/","s","h","o","p","/","c","o","/","2">>


(***************************************************************************)
(* Program constants.                                                      *)
(***************************************************************************)
OFF_TOPIC_THRESHOLD == 20

\* settings.off_topic_threshold, in hundredths: the default of the
\* OFF_TOPIC_THRESHOLD environment setting.  chat_ws does not read it.
off_topic_threshold == 60

MAX_TURNS == 6

IP_LIMIT == 20

IP_WINDOW_SEC == 60

SESSION_BUDGET == 15000

SESSION_TTL == 1800

RETRIEVE_K == 4

CLOSE_RATE_LIMIT == 4008

CLOSE_INTERNAL == 1011

CLOSE_DEFAULT == 1000

\* the canned texts of chat_ws and scrub_competitors
BRAND_SAFE_MESSAGE ==
    <<"I","^","m"," ","s","o","r","r","y"," ","-"," ","I"," ","o","n","l","y",
      " ","r","e","c","o","m","m","e","n","d"," ","S","p","e","c","t","r","a",
      "f","l","e","x"," ","c","a","b","l","e","s","."," ","H","e","r","e","^",
      "s"," ","t","h","e"," ","c","l","o","s","e","s","t"," ","o","p","t","i",
      "o","n"," ","w","e"," ","m","a","k","e",":"," ","C","l","a","s","s","i",
      "c"," ","S","e","r","i","e","s"," ","1","/","4","-","i","n","c","h"," ",
      "T","S"," ","s","p","e","a","k","e","r"," ","c","a","b","l","e"," ","(",
      "v","a","r","i","o","u","s"," ","l","e","n","g","t","h","s",")",".">>

REFUSAL ==
    <<"S","o","r","r","y","-","c","a","n","^","t"," ","h","e","l","p"," ","w",
      "i","t","h"," ","t","h","a","t",".">>

WHICH_CABLE ==
    <<"W","h","i","c","h"," ","c","a","b","l","e"," ","w","o","u","l","d"," ",
      "y","o","u"," ","l","i","k","e"," ","t","o"," ","a","d","d","?">>

ADDED_PREFIX ==
    <<"A","d","d","e","d","!"," ","F","i","n","i","s","h"," ","c","h","e","c",
      "k","o","u","t"," ","h","e","r","e",":"," ">>

OFF_TOPIC_REPLY ==
    <<"I","^","m"," ","h","e","r","e"," ","f","o","r"," ","S","p","e","c","t",
      "r","a","f","l","e","x"," ","g","e","a","r"," ","q","u","e","s","t","i",
      "o","n","s"," ","o","n","l","y">>

BUDGET_NOTICE ==
    <<"T","o","k","e","n"," ","b","u","d","g","e","t"," ","e","x","h","a","u",
      "s","t","e","d",".">>

DEFAULT_GREETING ==
    <<"W","e","l","c","o","m","e"," ","t","o"," ","S","p","e","c","t","r","a",
      "f","l","e","x","!">>

(***************************************************************************)
(* guardrails.py                                                           *)
(***************************************************************************)
BAD_TOPICS == {KW_DOSAGE, KW_PRESCRIPTION, KW_LAWSUIT, KW_BOMB, KW_WEAPON}

\* the outcomes of openai.moderations.create: a verdict, or an exception
ModerationOutcomes == {"clean", "flagged", "error"}

\* toxic_or_blocked without msg.lower(): the keywords are matched as typed
toxic_or_blocked_cased(msg, moderation) ==
    IF \E word \in BAD_TOPICS : Contains(msg, word)
    THEN TRUE
    ELSE moderation = "flagged"

\* toxic_or_blocked without the try/except around the moderation call read
\* as fail-closed: a call that raises counts as flagged
toxic_or_blocked_closed(msg, moderation) ==
    IF \E word \in BAD_TOPICS : Contains(Lower(msg), word)
    THEN TRUE
    ELSE moderation \in {"flagged", "error"}

\* toxic_or_blocked(msg); moderation is the outcome of the moderation call,
\* which is made only when no keyword matched
toxic_or_blocked(msg, moderation) ==
    IF \E word \in BAD_TOPICS : Contains(Lower(msg), word)
    THEN TRUE
    ELSE moderation = "flagged"

\* whether toxic_or_blocked(msg) reaches the moderation call
CallsModeration(msg) == ~(\E word \in BAD_TOPICS : Contains(Lower(msg), word))

(***************************************************************************)
(* app.py: intent routing, competitor scrub, history window                *)
(***************************************************************************)
\* "cart" in text_l and any(k in text_l for k in ("add","buy","purchase"))
IsCartIntent(message) ==
    LET text_l == Lower(message)
    IN  /\ Contains(text_l, W_CART)
        /\ \E k \in {W_ADD, W_BUY, W_PURCHASE} : Contains(text_l, k)

\* the literal w at position i of t, ending at a word boundary (\b)
WordAt(t, i, w) ==
    LitAtI(t, i, w) /\ BoundaryAt(t, i + Len(w))

\* w1\s*w2 at position i of t, ending at a word boundary
SpacedAt(t, i, w1, w2) ==
    LitAtI(t, i, w1) /\ WordAt(t, SkipSpaces(t, i + Len(w1)), w2)

\* Some alternative of _COMPETITOR_CABLES matches from position i of the
\* text t, letter case ignored, and ends at a word boundary.
CompetitorAt(t, i) ==
    \/ WordAt(t, i, B_MOGAMI)
    \/ SpacedAt(t, i, B_PLANET, B_WAVES)
    \/ WordAt(t, i, B_HOSA)
    \/ /\ LitAtI(t, i, B_D)
       /\ \/ WordAt(t, i + 1, B_ADDARIO)
          \/ /\ i + 1 <= Len(t)
             /\ t[i + 1] \in {"'", "^"}
             /\ WordAt(t, i + 2, B_ADDARIO)
    \/ WordAt(t, i, B_FENDER)
    \/ SpacedAt(t, i, B_ERNIE, B_BALL)

\* _COMPETITOR_CABLES.search(txt): some match starts at a word boundary
COMPETITOR_CABLES_search(txt) ==
    \E i \in 1..Len(txt) : BoundaryAt(txt, i) /\ CompetitorAt(txt, i)

\* scrub_competitors letting every text through
scrub_competitors_none(txt) == txt

\* if _COMPETITOR_CABLES.search(txt): return the brand-safe message
scrub_competitors(txt) ==
    IF COMPETITOR_CABLES_search(txt) THEN BRAND_SAFE_MESSAGE ELSE txt

\* hist[-n:] for n > 0
LastN(h, n) ==
    IF Len(h) <= n THEN h ELSE SubSeq(h, Len(h) - n + 1, Len(h))

\* the truncation written hist[:MAX_TURNS]: the oldest messages are kept
WithUserTurn_head(hist, message) ==
    SubSeq(Append(hist, [role |-> "user", content |-> message]), 1,
           IF Len(hist) + 1 <= MAX_TURNS THEN Len(hist) + 1 ELSE MAX_TURNS)

\* hist.append(user message); hist[:] = hist[-MAX_TURNS:]
WithUserTurn(hist, message) ==
    LastN(Append(hist, [role |-> "user", content |-> message]), MAX_TURNS)

\* hist.append(assistant answer), the list handed to set_history
WithAssistantTurn(hist, answer) ==
    Append(hist, [role |-> "assistant", content |-> answer])

(***************************************************************************)
(* app.py: retrieval helpers                                               *)
(***************************************************************************)
\* _retrieve_context: the matches that carry metadata
retrieve_context(matches) == SelectSeq(matches, LAMBDA m : m.hasMeta)

\* variant_gid without the variant: always the item's id
VariantGid_id(meta) == meta.id

\* meta.get("variantId") or meta["id"]
VariantGid(meta) == IF meta.variantId # "" THEN meta.variantId ELSE meta.id

\* services/pinecone.py max_similarity: match[0].score if match else 0.0
max_similarity(match) == IF match # <<>> THEN match[1].score ELSE 0

\* _prompt_with_context: the context block is one line per item, or NO_MATCH
prompt_with_context(question, ctx) ==
    [kind     |-> "grounded",
     context  |-> IF ctx = <<>> THEN <<"NO_MATCH">>
                  ELSE [i \in 1..Len(ctx) |-> ctx[i].id],
     question |-> question]

\* the loose prompt of smart_answer
loose_prompt(question) ==
    [kind |-> "loose", context |-> <<>>, question |-> question]

(***************************************************************************)
(* app.py: smart_answer                                                    *)
(***************************************************************************)
HEDGES == {H_DONT, H_DONOT, H_UNSURE}

\* answer.lower().startswith(("i don't know", "i do not know", "unsure"))
IsHedge(answer) == \E h \in HEDGES : StartsWith(Lower(answer), h)

\* smart_answer with `tokens_spent = chat2.usage.total_tokens` in the
\* fallback: the first call's tokens are dropped
smart_answer_last_usage(user_q, context, hist, chat, chat2) ==
    LET answer1 == Strip(chat.content)
        fallback == IsHedge(answer1)
        answer == IF fallback THEN Strip(chat2.content) ELSE answer1
        tokens_spent == IF fallback
                        THEN chat2.total_tokens
                        ELSE chat.total_tokens
    IN  [answer  |-> scrub_competitors(answer),
         raw     |-> answer,
         tokens  |-> tokens_spent,
         prompts |-> IF fallback
                     THEN <<prompt_with_context(user_q, context),
                            loose_prompt(user_q)>>
                     ELSE <<prompt_with_context(user_q, context)>>]

\* smart_answer(user_q, context, hist); chat and chat2 are what the two
\* completion calls return ([content, total_tokens]); chat2 is used only
\* when the second call is made.
smart_answer(user_q, context, hist, chat, chat2) ==
    LET answer1 == Strip(chat.content)
        fallback == IsHedge(answer1)
        answer == IF fallback THEN Strip(chat2.content) ELSE answer1
        tokens_spent == IF fallback
                        THEN chat.total_tokens + chat2.total_tokens
                        ELSE chat.total_tokens
    IN  [answer  |-> scrub_competitors(answer),
         raw     |-> answer,
         tokens  |-> tokens_spent,
         prompts |-> IF fallback
                     THEN <<prompt_with_context(user_q, context),
                            loose_prompt(user_q)>>
                     ELSE <<prompt_with_context(user_q, context)>>]

(***************************************************************************)
(* rate_limit.py: the two Lua scripts                                      *)
(***************************************************************************)
\* _IP_LUA returning n < limit: the last message of the window is refused
IP_LUA_strict(key, limit, ttl) ==
    LET n == key.n + 1
    IN  [key     |-> [n |-> n,
                      ttl |-> IF n = 1 THEN ttl ELSE key.ttl,
                      arms |-> IF n = 1 THEN key.arms + 1 ELSE key.arms],
         allowed |-> n < limit]

\* _IP_LUA with the EXPIRE outside the test of n: every call arms the
\* expiry again
IP_LUA_rearm(key, limit, ttl) ==
    LET n == key.n + 1
    IN  [key     |-> [n |-> n, ttl |-> ttl, arms |-> key.arms + 1],
         allowed |-> n <= limit]

\* _IP_LUA on a key holding [n, ttl] (n = 0: no key)
IP_LUA(key, limit, ttl) ==
    LET n == key.n + 1
    IN  [key     |-> [n |-> n,
                      ttl |-> IF n = 1 THEN ttl ELSE key.ttl,
                      arms |-> IF n = 1 THEN key.arms + 1 ELSE key.arms],
         allowed |-> n <= limit]

\* _SESSION_LUA without the GET: every call starts from the full budget
SESSION_LUA_fresh(key, budget, used, ttl) ==
    LET remain == budget - used
    IN  IF remain < 0
        THEN [key |-> key, ret |-> -1]
        ELSE [key |-> [set |-> TRUE, val |-> remain, ttl |-> ttl],
              ret |-> remain]

\* _SESSION_LUA returning -1 on remain <= 0: a spend of all that is left
\* is refused
SESSION_LUA_le(key, budget, used, ttl) ==
    LET remain == (IF key.set THEN key.val ELSE budget) - used
    IN  IF remain <= 0
        THEN [key |-> key, ret |-> -1]
        ELSE [key |-> [set |-> TRUE, val |-> remain, ttl |-> ttl],
              ret |-> remain]

\* _SESSION_LUA on a key holding [set, val, ttl] (set = FALSE: no key);
\* ret is the script's return value
SESSION_LUA(key, budget, used, ttl) ==
    LET remain == (IF key.set THEN key.val ELSE budget) - used
    IN  IF remain < 0
        THEN [key |-> key, ret |-> -1]
        ELSE [key |-> [set |-> TRUE, val |-> remain, ttl |-> ttl],
              ret |-> remain]


(***************************************************************************)
(* app.py: the inbound schema _WsIn and the outbound frames                *)
(***************************************************************************)
\* A text frame: not JSON at all, or a JSON object whose "session" and
\* "message" members are missing, null, a string or a number.
MissingSession == [tag |-> "missing", id |-> ""]

NullSession == [tag |-> "null", id |-> ""]

NumSession == [tag |-> "num", id |-> ""]

StrSession(id) == [tag |-> "str", id |-> id]

MissingMessage == [tag |-> "missing", text |-> <<>>]

StrMessage(text) == [tag |-> "str", text |-> text]

NotJson == [json |-> FALSE, session |-> MissingSession, message |-> MissingMessage]

JsonFrame(session, message) ==
    [json |-> TRUE, session |-> session, message |-> message]

\* _WsIn.model_validate_json(raw): session is str | None = None, message is
\* a required str; errors are the (loc, type) pairs of e.errors()
model_validate_json(raw) ==
    LET errs ==
            IF ~raw.json THEN <<[loc |-> "", type |-> "json_invalid"]>>
            ELSE (IF raw.session.tag \in {"missing", "null", "str"} THEN <<>>
                  ELSE <<[loc |-> "session", type |-> "string_type"]>>)
                 \o
                 (IF raw.message.tag = "str" THEN <<>>
                  ELSE IF raw.message.tag = "missing"
                       THEN <<[loc |-> "message", type |-> "missing"]>>
                       ELSE <<[loc |-> "message", type |-> "string_type"]>>)
    IN  [ok      |-> errs = <<>>,
         errors  |-> errs,
         session |-> IF raw.session.tag = "str" THEN raw.session.id ELSE "",
         message |-> raw.message.text]

\* _WsOut(session=..., answer=...).model_dump()
WsOut(session, answer) ==
    [type |-> "answer", session |-> session, answer |-> answer,
     error |-> "", details |-> <<>>]

\* {"error": "Invalid payload", "details": e.errors()}
ErrorOut(details) ==
    [type |-> "error", session |-> "", answer |-> <<>>,
     error |-> "Invalid payload", details |-> details]

NoFrame ==
    [type |-> "none", session |-> "", answer |-> <<>>,
     error |-> "", details |-> <<>>]

(***************************************************************************)
(* Connections and sessions                                                *)
(***************************************************************************)
Conns == {"c1", "c2"}

\* str(uuid.uuid4()): a fresh identifier for each connection
Uuid(c) == IF c = "c1" THEN "u1" ELSE "u2"

SessionIds == {Uuid(c) : c \in Conns}

\* ws.client.host: both connections come from one client address
ClientHost(c) == "ip1"

Ips == {ClientHost(c) : c \in Conns}

(***************************************************************************)
(* State                                                                   *)
(***************************************************************************)
VARIABLES
    scripts,        \* rate_limit.py: _ip_script and _session_script exist
    health_response, \* what GET /health returned last ([ping, payload])
    hist_store,     \* redis "hist:<session>": a list (<<>>: no key)
    lastpid_store,  \* redis "lastpid:<session>": a string ("": no key)
    tok_store,      \* redis "rl:tok:<session>": [set, val, ttl]
    ip_store,       \* redis "rl:ip:<ip>": [n, ttl, arms] (n = 0: no key)
    pc,             \* where chat_ws stands, per connection
    ws,             \* the socket: [state, code, by]
    session_id,     \* chat_ws's session_id ("": not minted yet)
    local,          \* chat_ws's locals of the current turn
    lastOut,        \* the last frame sent since the last frame was read
    turn,           \* what the current turn has done so far (history variable)
    reads           \* frames read so far, over all connections

vars ==
    <<scripts, health_response, hist_store, lastpid_store, tok_store,
      ip_store, pc, ws, session_id, local, lastOut, turn, reads>>

stores == <<hist_store, lastpid_store, tok_store, ip_store>>

NoLocal ==
    [raw |-> NotJson, session |-> "", message |-> <<>>, pid |-> "",
     context |-> <<>>, hist |-> <<>>, answer |-> <<>>, spent |-> 0]

\* Nothing done yet in the turn.  The counters say how often the turn made
\* each call; verdict is the outcome of the moderation call while the turn
\* stands at the routing, faultAt the stage at which a call raised; the
\* fields from frame on hold what the turn started from, what its calls
\* were given and what they returned; transcript is every message written
\* to the session's history so far, over all the turns of the connection;
\* charged is the sum of the tokens consume_tokens has taken from the
\* session's budget key since the key was last absent.
NoTurn ==
    [outcome |-> "none", sent |-> 0, validated |-> FALSE, throttles |-> 0,
     filters |-> 0, moderations |-> 0, routed |-> FALSE, pidReads |-> 0,
     checkouts |-> 0, similarities |-> 0, retrievals |-> 0, pidWrites |-> 0,
     histReads |-> 0, completions |-> 0, histWrites |-> 0, consumes |-> 0,
     exhausted |-> FALSE, verdict |-> "", faultAt |-> "",
     frame |-> NotJson, message |-> <<>>, hist0 |-> <<>>, pid0 |-> "",
     checkout |-> <<>>, webUrl |-> <<>>, score |-> 0, k |-> 0,
     prompts |-> <<>>, replies |-> <<>>, usage |-> <<>>, raw |-> <<>>,
     transcript |-> <<>>, charged |-> 0]

\* the record a turn starts with on connection c: the frame read, and the
\* history and the last item stored for its session when it is read
NewTurn(c, raw) ==
    [NoTurn EXCEPT !.outcome = "pending",
                   !.frame = raw,
                   !.hist0 = hist_store[session_id[c]],
                   !.pid0 = lastpid_store[session_id[c]],
                   !.transcript = turn[c].transcript,
                   !.charged = turn[c].charged]

\* the record of a turn that has sent its answer: the counters stay, what
\* the retrieval and completion calls carried is dropped
Answered(t) ==
    [t EXCEPT !.score = 0, !.prompts = <<>>, !.replies = <<>>,
              !.usage = <<>>, !.raw = <<>>]

NoKeyTok == [set |-> FALSE, val |-> 0, ttl |-> 0]

\* GET /health has not been requested yet
NoProbe == [ping |-> "none", payload |-> {}]

NoKeyIp == [n |-> 0, ttl |-> 0, arms |-> 0]

Init ==
    /\ scripts \in BOOLEAN
    /\ health_response = NoProbe
    /\ hist_store = [s \in SessionIds |-> <<>>]
    /\ lastpid_store = [s \in SessionIds |-> ""]
    /\ tok_store = [s \in SessionIds |-> NoKeyTok]
    /\ ip_store = [ip \in Ips |-> NoKeyIp]
    /\ pc = [c \in Conns |-> "connect"]
    /\ ws = [c \in Conns |-> [state |-> "connecting", code |-> 0, by |-> "none"]]
    /\ session_id = [c \in Conns |-> ""]
    /\ local = [c \in Conns |-> NoLocal]
    /\ lastOut = [c \in Conns |-> NoFrame]
    /\ turn = [c \in Conns |-> NoTurn]
    /\ reads = 0

(***************************************************************************)
(* Steps shared by the actions                                             *)
(***************************************************************************)
\* await ws.send_json(frame) as the reply that ends the turn, whose record
\* becomes t; `continue` takes the loop back to receive_text.  No store key
\* is written.
SendAndContinue(c, frame, outcome, t) ==
    /\ lastOut' = [lastOut EXCEPT ![c] = frame]
    /\ turn' = [turn EXCEPT ![c] =
                    [t EXCEPT !.sent = t.sent + 1, !.outcome = outcome]]
    /\ local' = [local EXCEPT ![c] = NoLocal]
    /\ pc' = [pc EXCEPT ![c] = "recv"]
    /\ UNCHANGED <<ws, stores>>

\* the turn goes on to the stage `next`, its record becoming t
GoOn(c, next, t) ==
    /\ turn' = [turn EXCEPT ![c] = t]
    /\ pc' = [pc EXCEPT ![c] = next]
    /\ UNCHANGED <<ws, local, lastOut, stores>>

\* await ws.close(code) without the break: the loop reads on
CloseAndBreak_continue(c, code) ==
    /\ ws' = [ws EXCEPT ![c] = [state |-> "closed", code |-> code, by |-> "server"]]
    /\ local' = [local EXCEPT ![c] = NoLocal]
    /\ pc' = [pc EXCEPT ![c] = "recv"]

\* await ws.close(code); break
CloseAndBreak(c, code) ==
    /\ ws' = [ws EXCEPT ![c] = [state |-> "closed", code |-> code, by |-> "server"]]
    /\ local' = [local EXCEPT ![c] = NoLocal]
    /\ pc' = [pc EXCEPT ![c] = "done"]

(***************************************************************************)
(* chat_ws.  An action's parameters after the connection are its inputs:   *)
(* the frame read, or what a collaborator returns.                         *)
(***************************************************************************)
\* the accept going straight to the read loop: no greeting is sent
Accept_no_greeting(c) ==
    /\ pc[c] = "connect"
    /\ ws' = [ws EXCEPT ![c] = [state |-> "open", code |-> 0, by |-> "none"]]
    /\ session_id' = [session_id EXCEPT ![c] = Uuid(c)]
    /\ pc' = [pc EXCEPT ![c] = "recv"]
    /\ UNCHANGED <<scripts, health_response, stores, local, lastOut, turn,
                   reads>>

\* await ws.accept(); session_id = str(uuid.uuid4())
Accept(c) ==
    /\ pc[c] = "connect"
    /\ ws' = [ws EXCEPT ![c] = [state |-> "open", code |-> 0, by |-> "none"]]
    /\ session_id' = [session_id EXCEPT ![c] = Uuid(c)]
    /\ pc' = [pc EXCEPT ![c] = "greet"]
    /\ UNCHANGED <<scripts, health_response, stores, local, lastOut, turn, reads>>

\* greeting = await redis.get(...) or default; await ws.send_json(...);
\* stored is what redis.get returns (<<>>: no such key)
Greet(c, stored) ==
    /\ pc[c] = "greet"
    /\ LET greeting == IF stored # <<>> THEN stored ELSE DEFAULT_GREETING
       IN  lastOut' = [lastOut EXCEPT ![c] = WsOut(session_id[c], greeting)]
    /\ pc' = [pc EXCEPT ![c] = "recv"]
    /\ UNCHANGED <<scripts, health_response, stores, ws, session_id, local, turn, reads>>

\* redis.get raises before the try block is entered: nothing in chat_ws
\* catches it, and the handler makes no close call of its own
GreetFault(c) ==
    /\ pc[c] = "greet"
    /\ pc' = [pc EXCEPT ![c] = "crashed"]
    /\ ws' = [ws EXCEPT ![c] = [state |-> "closed", code |-> 0, by |-> "framework"]]
    /\ UNCHANGED <<scripts, health_response, stores, session_id, local, lastOut, turn, reads>>

\* raw = await ws.receive_text(), with at most `bound` frames read
Receive(c, raw, bound) ==
    /\ pc[c] = "recv"
    /\ reads < bound
    /\ reads' = reads + 1
    /\ local' = [local EXCEPT ![c] = [NoLocal EXCEPT !.raw = raw]]
    /\ turn' = [turn EXCEPT ![c] = NewTurn(c, raw)]
    /\ lastOut' = [lastOut EXCEPT ![c] = NoFrame]
    /\ pc' = [pc EXCEPT ![c] = "validate"]
    /\ UNCHANGED <<scripts, health_response, stores, ws, session_id>>

\* receive_text raises WebSocketDisconnect: logged, no close call
Disconnect(c) ==
    /\ pc[c] = "recv"
    /\ ws' = [ws EXCEPT ![c] = [state |-> "closed", code |-> 0, by |-> "peer"]]
    /\ pc' = [pc EXCEPT ![c] = "done"]
    /\ UNCHANGED <<scripts, health_response, stores, session_id, local, lastOut, turn, reads>>

\* the ValidationError branch without its `continue`: the error payload is
\* sent and the turn goes on to the rate check
InvalidPayload_on(c, errors) ==
    /\ lastOut' = [lastOut EXCEPT ![c] = ErrorOut(errors)]
    /\ turn' = [turn EXCEPT ![c].sent = @ + 1, ![c].outcome = "invalid"]
    /\ pc' = [pc EXCEPT ![c] = "rate"]
    /\ UNCHANGED <<ws, local, stores>>

\* the ValidationError branch: send the error payload; continue
InvalidPayload(c, errors) ==
    SendAndContinue(c, ErrorOut(errors), "invalid", turn[c])

\* req = _WsIn.model_validate_json(raw)
Validate(c) ==
    /\ pc[c] = "validate"
    /\ LET req == model_validate_json(local[c].raw)
       IN  IF ~req.ok
           THEN InvalidPayload(c, req.errors)
           ELSE /\ local' = [local EXCEPT ![c].session = req.session,
                                          ![c].message = req.message]
                /\ turn' = [turn EXCEPT ![c].validated = TRUE,
                                        ![c].message = req.message]
                /\ pc' = [pc EXCEPT ![c] = "rate"]
                /\ UNCHANGED <<ws, lastOut, stores>>
    /\ UNCHANGED <<scripts, health_response, session_id, reads>>

\* rate_limit.ip_throttle(ip): [allowed, key] for the key as it stands
ip_throttle(registered, key) ==
    IF ~registered
    THEN [allowed |-> TRUE, key |-> key]
    ELSE IP_LUA(key, IP_LIMIT, IP_WINDOW_SEC)

\* a limiter without the script: the count is read from the store in one
\* step (and kept in the turn's record) and written back, one higher, in
\* another
RateCheck_racy(c) ==
    LET ip == ClientHost(c)
    IN  \/ /\ pc[c] = "rate"
           /\ turn' = [turn EXCEPT ![c].k = ip_store[ip].n]
           /\ pc' = [pc EXCEPT ![c] = "rate_write"]
           /\ UNCHANGED <<scripts, health_response, stores, ws, session_id, local, lastOut,
                          reads>>
        \/ /\ pc[c] = "rate_write"
           /\ LET n == turn[c].k + 1
                  allowed == ~scripts \/ n <= IP_LIMIT
              IN  /\ ip_store' =
                        [ip_store EXCEPT ![ip] =
                            IF scripts
                            THEN [n |-> n,
                                  ttl |-> IF n = 1 THEN IP_WINDOW_SEC ELSE @.ttl,
                                  arms |-> IF n = 1 THEN @.arms + 1 ELSE @.arms]
                            ELSE @]
                  /\ IF ~allowed
                     THEN /\ CloseAndBreak(c, CLOSE_RATE_LIMIT)
                          /\ turn' = [turn EXCEPT ![c].throttles = @ + 1,
                                                  ![c].k = 0,
                                                  ![c].outcome = "rate_limited"]
                     ELSE /\ pc' = [pc EXCEPT ![c] = "content"]
                          /\ turn' = [turn EXCEPT ![c].throttles = @ + 1,
                                                  ![c].k = 0]
                          /\ UNCHANGED <<ws, local>>
           /\ UNCHANGED <<scripts, health_response, hist_store, lastpid_store, tok_store,
                          session_id, lastOut, reads>>

\* a rate limit that rejects the turn and goes on reading: a notice is
\* sent instead of the close
RateCheck_replying(c) ==
    /\ pc[c] = "rate"
    /\ LET ip == ClientHost(c)
           r  == ip_throttle(scripts, ip_store[ip])
       IN  /\ ip_store' = [ip_store EXCEPT ![ip] = r.key]
           /\ IF ~r.allowed
              THEN /\ lastOut' = [lastOut EXCEPT ![c] =
                                     WsOut(session_id[c], BUDGET_NOTICE)]
                   /\ turn' = [turn EXCEPT ![c].throttles = @ + 1,
                                           ![c].sent = @ + 1,
                                           ![c].outcome = "rate_limited"]
                   /\ local' = [local EXCEPT ![c] = NoLocal]
                   /\ pc' = [pc EXCEPT ![c] = "recv"]
                   /\ UNCHANGED ws
              ELSE /\ pc' = [pc EXCEPT ![c] = "content"]
                   /\ turn' = [turn EXCEPT ![c].throttles = @ + 1]
                   /\ UNCHANGED <<ws, local, lastOut>>
    /\ UNCHANGED <<scripts, health_response, hist_store, lastpid_store, tok_store, session_id,
                   reads>>

\* if not ip_throttle(ip): await ws.close(code=4008, reason="Rate limit"); break
RateCheck(c) ==
    /\ pc[c] = "rate"
    /\ LET ip == ClientHost(c)
           r  == ip_throttle(scripts, ip_store[ip])
       IN  /\ ip_store' = [ip_store EXCEPT ![ip] = r.key]
           /\ IF ~r.allowed
              THEN /\ CloseAndBreak(c, CLOSE_RATE_LIMIT)
                   /\ turn' = [turn EXCEPT ![c].throttles = @ + 1,
                                           ![c].outcome = "rate_limited"]
              ELSE /\ pc' = [pc EXCEPT ![c] = "content"]
                   /\ turn' = [turn EXCEPT ![c].throttles = @ + 1]
                   /\ UNCHANGED <<ws, local>>
    /\ UNCHANGED <<scripts, health_response, hist_store, lastpid_store, tok_store, session_id,
                   lastOut, reads>>

\* the branch of a flagged message without its `continue`: the refusal is
\* sent and the turn goes on to the routing
Refuse_on(c, t) ==
    /\ lastOut' = [lastOut EXCEPT ![c] = WsOut(session_id[c], REFUSAL)]
    /\ turn' = [turn EXCEPT ![c] = [t EXCEPT !.sent = @ + 1]]
    /\ pc' = [pc EXCEPT ![c] = "route"]
    /\ UNCHANGED <<ws, local, stores>>

\* the branch of a flagged message: send the refusal; continue
Refuse(c, t) ==
    SendAndContinue(c, WsOut(session_id[c], REFUSAL), "blocked", t)

\* if toxic_or_blocked(req.message): ...; moderation is the outcome of the
\* moderation call ("none" when toxic_or_blocked does not make it)
ContentCheck(c, moderation) ==
    /\ pc[c] = "content"
    /\ (moderation = "none") = ~CallsModeration(local[c].message)
    /\ LET t == [turn[c] EXCEPT
                    !.filters = @ + 1,
                    !.moderations = @ + (IF moderation = "none" THEN 0 ELSE 1),
                    !.verdict = IF moderation = "none" THEN "" ELSE moderation]
       IN  IF toxic_or_blocked(local[c].message, moderation)
           THEN Refuse(c, t)
           ELSE GoOn(c, "route", t)
    /\ UNCHANGED <<scripts, health_response, session_id, reads>>

\* the add-to-cart test on text_l
Route(c) ==
    /\ pc[c] = "route"
    /\ pc' = [pc EXCEPT ![c] =
                IF IsCartIntent(local[c].message) THEN "cart" ELSE "gate"]
    /\ turn' = [turn EXCEPT ![c].routed = TRUE, ![c].verdict = ""]
    /\ UNCHANGED <<scripts, health_response, stores, ws, session_id, local, lastOut, reads>>

\* get_last_pid(session)
get_last_pid(session) == lastpid_store[session]

\* the branch of `if not pid` left out: the checkout is made with no item
AskWhichCable_skipped(c, t) ==
    /\ turn' = [turn EXCEPT ![c] = t]
    /\ pc' = [pc EXCEPT ![c] = "checkout"]
    /\ UNCHANGED <<ws, local, lastOut, stores>>

\* the branch of `if not pid`: ask which cable; continue
AskWhichCable(c, t) ==
    SendAndContinue(c, WsOut(session_id[c], WHICH_CABLE), "cart_ask", t)

\* the cart branch reading the last item of the session the client names,
\* when it names one
CartLookup_client(c) ==
    /\ pc[c] = "cart"
    /\ LET pid == get_last_pid(IF local[c].session # ""
                               THEN local[c].session
                               ELSE session_id[c])
           t == [turn[c] EXCEPT !.pidReads = @ + 1]
       IN  IF pid = ""
           THEN AskWhichCable(c, t)
           ELSE /\ local' = [local EXCEPT ![c].pid = pid]
                /\ turn' = [turn EXCEPT ![c] = t]
                /\ pc' = [pc EXCEPT ![c] = "checkout"]
                /\ UNCHANGED <<ws, lastOut, stores>>
    /\ UNCHANGED <<scripts, health_response, session_id, reads>>

\* pid = await get_last_pid(session_id); if not pid: ...
CartLookup(c) ==
    /\ pc[c] = "cart"
    /\ LET pid == get_last_pid(session_id[c])
           t == [turn[c] EXCEPT !.pidReads = @ + 1]
       IN  IF pid = ""
           THEN AskWhichCable(c, t)
           ELSE /\ local' = [local EXCEPT ![c].pid = pid]
                /\ turn' = [turn EXCEPT ![c] = t]
                /\ pc' = [pc EXCEPT ![c] = "checkout"]
                /\ UNCHANGED <<ws, lastOut, stores>>
    /\ UNCHANGED <<scripts, health_response, session_id, reads>>

\* services/shopify_cart.create_checkout(variant_id, qty=1): the variables
\* of the checkoutCreate mutation
create_checkout(variant_id) == [variant |-> variant_id, qty |-> 1]

\* the checkout branch without its `continue`: the link is sent and the
\* turn goes on to the off-topic gate
Checkout_on(c, webUrl) ==
    /\ pc[c] = "checkout"
    /\ lastOut' = [lastOut EXCEPT ![c] =
                       WsOut(session_id[c], ADDED_PREFIX \o webUrl)]
    /\ turn' = [turn EXCEPT ![c].checkouts = @ + 1,
                            ![c].checkout = <<create_checkout(local[c].pid)>>,
                            ![c].webUrl = webUrl,
                            ![c].sent = @ + 1,
                            ![c].outcome = "cart_checkout"]
    /\ pc' = [pc EXCEPT ![c] = "gate"]
    /\ UNCHANGED <<ws, local, stores, scripts, health_response, session_id, reads>>

\* checkout = create_checkout(pid); send the link; continue.  webUrl is
\* what the checkout request returns.
Checkout(c, webUrl) ==
    /\ pc[c] = "checkout"
    /\ SendAndContinue(c, WsOut(session_id[c], ADDED_PREFIX \o webUrl),
                       "cart_checkout",
                       [turn[c] EXCEPT
                          !.checkouts = @ + 1,
                          !.checkout = <<create_checkout(local[c].pid)>>,
                          !.webUrl = webUrl])
    /\ UNCHANGED <<scripts, health_response, session_id, reads>>

\* the off-topic branch placed after the history update: the redirect is
\* sent and the user's message is kept in the stored history
OffTopicReject_kept(c, t) ==
    /\ lastOut' = [lastOut EXCEPT ![c] = WsOut(session_id[c], OFF_TOPIC_REPLY)]
    /\ turn' = [turn EXCEPT ![c] =
                   [t EXCEPT !.sent = @ + 1, !.outcome = "off_topic"]]
    /\ hist_store' = [hist_store EXCEPT ![session_id[c]] =
                         WithUserTurn(@, local[c].message)]
    /\ local' = [local EXCEPT ![c] = NoLocal]
    /\ pc' = [pc EXCEPT ![c] = "recv"]
    /\ UNCHANGED <<ws, lastpid_store, tok_store, ip_store>>

\* the branch of a score under the threshold: send the redirect; continue
OffTopicReject(c, t) ==
    SendAndContinue(c, WsOut(session_id[c], OFF_TOPIC_REPLY), "off_topic", t)

\* if max_similarity(req.message) < OFF_TOPIC_THRESHOLD: ...; match is
\* what query(text, k=1) returns
OffTopicGate(c, match) ==
    /\ pc[c] = "gate"
    /\ LET score == max_similarity(match)
           t == [turn[c] EXCEPT !.similarities = @ + 1, !.score = score]
       IN  IF score < OFF_TOPIC_THRESHOLD
           THEN OffTopicReject(c, t)
           ELSE GoOn(c, "retrieve", t)
    /\ UNCHANGED <<scripts, health_response, session_id, reads>>

\* context = _retrieve_context(req.message); if context: set_last_pid(...);
\* matches is what query(text, k=4) returns
Retrieve(c, matches) ==
    /\ pc[c] = "retrieve"
    /\ Len(matches) <= RETRIEVE_K
    /\ LET context == retrieve_context(matches)
           t == [turn[c] EXCEPT !.retrievals = @ + 1, !.k = RETRIEVE_K]
       IN  /\ local' = [local EXCEPT ![c].context = context]
           /\ IF context # <<>>
              THEN /\ lastpid_store' =
                         [lastpid_store EXCEPT ![session_id[c]] =
                             VariantGid(context[1])]
                   /\ turn' = [turn EXCEPT ![c] =
                                  [t EXCEPT !.pidWrites = @ + 1]]
              ELSE /\ turn' = [turn EXCEPT ![c] = t]
                   /\ UNCHANGED lastpid_store
    /\ pc' = [pc EXCEPT ![c] = "load"]
    /\ UNCHANGED <<scripts, health_response, hist_store, tok_store, ip_store, ws, session_id,
                   lastOut, reads>>

\* get_history(session)
get_history(session) == hist_store[session]

\* hist = await get_history(session_id); append the user turn; truncate
LoadHistory(c) ==
    /\ pc[c] = "load"
    /\ local' = [local EXCEPT ![c].hist =
                    WithUserTurn(get_history(session_id[c]), local[c].message)]
    /\ turn' = [turn EXCEPT ![c].histReads = @ + 1]
    /\ pc' = [pc EXCEPT ![c] = "answer"]
    /\ UNCHANGED <<scripts, health_response, stores, ws, session_id, lastOut, reads>>

\* answer, spent = await smart_answer(...); hist.append(assistant turn);
\* chat and chat2 are what the completion calls return (chat2 = chat when
\* the second call is not made).  context is not read again in the turn.
Answer(c, chat, chat2) ==
    /\ pc[c] = "answer"
    /\ IsHedge(Strip(chat.content)) \/ chat2 = chat
    /\ LET r == smart_answer(local[c].message, local[c].context,
                             local[c].hist, chat, chat2)
       IN  /\ local' = [local EXCEPT
                           ![c].context = <<>>,
                           ![c].answer = r.answer,
                           ![c].spent = r.tokens,
                           ![c].hist = WithAssistantTurn(@, r.answer)]
           /\ turn' = [turn EXCEPT
                          ![c].completions = Len(r.prompts),
                          ![c].prompts = r.prompts,
                          ![c].replies = IF Len(r.prompts) = 1
                                         THEN <<chat.content>>
                                         ELSE <<chat.content, chat2.content>>,
                          ![c].usage = IF Len(r.prompts) = 1
                                       THEN <<chat.total_tokens>>
                                       ELSE <<chat.total_tokens,
                                              chat2.total_tokens>>,
                          ![c].raw = r.raw]
    /\ pc' = [pc EXCEPT ![c] = "save"]
    /\ UNCHANGED <<scripts, health_response, stores, ws, session_id, lastOut, reads>>

\* set_history given the reply as the completion returned it, before the
\* brand scrub
SaveHistory_raw(c) ==
    /\ pc[c] = "save"
    /\ hist_store' = [hist_store EXCEPT ![session_id[c]] =
                         WithAssistantTurn(
                            SubSeq(local[c].hist, 1, Len(local[c].hist) - 1),
                            turn[c].raw)]
    /\ turn' = [turn EXCEPT
                   ![c].histWrites = @ + 1,
                   ![c].transcript =
                      @ \o <<[role |-> "user", content |-> local[c].message],
                             [role |-> "assistant",
                              content |-> local[c].answer]>>]
    /\ pc' = [pc EXCEPT ![c] = "consume"]
    /\ UNCHANGED <<scripts, health_response, lastpid_store, tok_store, ip_store, ws, session_id,
                   local, lastOut, reads>>

\* await set_history(session_id, hist)
SaveHistory(c) ==
    /\ pc[c] = "save"
    /\ hist_store' = [hist_store EXCEPT ![session_id[c]] = local[c].hist]
    /\ turn' = [turn EXCEPT
                   ![c].histWrites = @ + 1,
                   ![c].transcript =
                      @ \o <<[role |-> "user", content |-> local[c].message],
                             [role |-> "assistant",
                              content |-> local[c].answer]>>]
    /\ pc' = [pc EXCEPT ![c] = "consume"]
    /\ UNCHANGED <<scripts, health_response, lastpid_store, tok_store, ip_store, ws, session_id,
                   local, lastOut, reads>>

\* rate_limit.consume_tokens(session_id, tokens): [ok, key]
consume_tokens(registered, key, tokens) ==
    IF ~registered
    THEN [ok |-> TRUE, key |-> key]
    ELSE LET r == SESSION_LUA(key, SESSION_BUDGET, tokens, SESSION_TTL)
         IN  [ok |-> r.ret # -1, key |-> r.key]

\* consume_tokens on one budget key for every session
Consume_shared(c) ==
    /\ pc[c] = "consume"
    /\ LET r == consume_tokens(scripts, tok_store[Uuid("c1")], local[c].spent)
       IN  /\ tok_store' = [tok_store EXCEPT ![Uuid("c1")] = r.key]
           /\ turn' = [turn EXCEPT ![c].consumes = @ + 1,
                                   ![c].exhausted = ~r.ok,
                                   ![c].charged =
                                      IF scripts /\ r.ok
                                      THEN @ + local[c].spent ELSE @]
           /\ pc' = [pc EXCEPT ![c] = IF r.ok THEN "reply" ELSE "exhausted"]
    /\ UNCHANGED <<scripts, health_response, hist_store, lastpid_store, ip_store, ws,
                   session_id, local, lastOut, reads>>

\* if not consume_tokens(session_id, spent): ...
Consume(c) ==
    /\ pc[c] = "consume"
    /\ LET r == consume_tokens(scripts, tok_store[session_id[c]], local[c].spent)
       IN  /\ tok_store' = [tok_store EXCEPT ![session_id[c]] = r.key]
           /\ turn' = [turn EXCEPT ![c].consumes = @ + 1,
                                   ![c].exhausted = ~r.ok,
                                   ![c].charged =
                                      IF scripts /\ r.ok
                                      THEN @ + local[c].spent ELSE @]
           /\ pc' = [pc EXCEPT ![c] = IF r.ok THEN "reply" ELSE "exhausted"]
    /\ UNCHANGED <<scripts, health_response, hist_store, lastpid_store, ip_store, ws,
                   session_id, local, lastOut, reads>>

\* await ws.send_json(_WsOut(session=session_id, answer=answer).model_dump())
Reply(c) ==
    /\ pc[c] = "reply"
    /\ SendAndContinue(c, WsOut(session_id[c], local[c].answer), "answered",
                       Answered(turn[c]))
    /\ UNCHANGED <<scripts, health_response, session_id, reads>>

\* the budget branch without close and break: the notice is sent and the
\* loop reads on
BudgetClose_open(c) ==
    /\ pc[c] = "exhausted"
    /\ lastOut' = [lastOut EXCEPT ![c] = WsOut(session_id[c], BUDGET_NOTICE)]
    /\ turn' = [turn EXCEPT ![c] =
                   [Answered(@) EXCEPT !.sent = @ + 1, !.outcome = "exhausted"]]
    /\ local' = [local EXCEPT ![c] = NoLocal]
    /\ pc' = [pc EXCEPT ![c] = "recv"]
    /\ UNCHANGED <<scripts, health_response, stores, ws, session_id, reads>>

\* the budget branch sending the computed answer before it closes
BudgetClose_answering(c) ==
    /\ pc[c] = "exhausted"
    /\ lastOut' = [lastOut EXCEPT ![c] = WsOut(session_id[c], local[c].answer)]
    /\ turn' = [turn EXCEPT ![c] =
                   [Answered(@) EXCEPT !.sent = @ + 1, !.outcome = "exhausted"]]
    /\ CloseAndBreak(c, CLOSE_DEFAULT)
    /\ UNCHANGED <<scripts, health_response, stores, session_id, reads>>

\* send "Token budget exhausted."; await ws.close(); break
BudgetClose(c) ==
    /\ pc[c] = "exhausted"
    /\ lastOut' = [lastOut EXCEPT ![c] = WsOut(session_id[c], BUDGET_NOTICE)]
    /\ turn' = [turn EXCEPT ![c] =
                   [Answered(@) EXCEPT !.sent = @ + 1, !.outcome = "exhausted"]]
    /\ CloseAndBreak(c, CLOSE_DEFAULT)
    /\ UNCHANGED <<scripts, health_response, stores, session_id, reads>>

\* The places inside the try block where a store or collaborator call can
\* raise: the limiter scripts (when registered), redis.get/set, the vector
\* index, the completion service and the checkout request.
FaultPoints ==
    {"cart", "checkout", "gate", "retrieve", "load", "answer", "save"}
    \cup (IF scripts THEN {"rate", "consume"} ELSE {})

\* except Exception: logger.exception(...); await ws.close(code=1011)
Fault(c) ==
    /\ pc[c] \in FaultPoints
    /\ turn' = [turn EXCEPT ![c] = [Answered(@) EXCEPT !.outcome = "fault",
                                                        !.faultAt = pc[c]]]
    /\ CloseAndBreak(c, CLOSE_INTERNAL)
    /\ UNCHANGED <<scripts, health_response, stores, session_id, lastOut, reads>>

(***************************************************************************)
(* GET /health.  A JSON object is the set of its (key, value) pairs.       *)
(***************************************************************************)
\* the outcomes of redis.ping(): an answer, or an exception
Pings == {"pong", "raises"}

\* health without the try/except: the exception of the ping is the
\* endpoint's
health_unguarded(ping) ==
    IF ping = "pong"
    THEN {<<"status", "ok">>}
    ELSE {<<"raised", "Exception">>}

\* health(): the payload returned when redis.ping() has the outcome ping
health(ping) ==
    IF ping = "pong"
    THEN {<<"status", "ok">>}
    ELSE {<<"status", "degraded">>, <<"redis", "unreachable">>}

\* one request to GET /health
Health(ping) ==
    /\ health_response' = [ping |-> ping, payload |-> health(ping)]
    /\ UNCHANGED <<scripts, stores, pc, ws, session_id, local, lastOut, turn,
                   reads>>

(***************************************************************************)
(* Other clients at the same address: their validated messages go through  *)
(* ip_throttle on the same key.                                            *)
(***************************************************************************)
RECURSIVE Throttled(_, _)
\* the key rl:ip:<ip> after k more calls of ip_throttle
Throttled(key, k) ==
    IF k = 0 THEN key ELSE Throttled(ip_throttle(TRUE, key).key, k - 1)

\* k messages of other connections at the address ip pass validation, the
\* count staying within cap
OtherTraffic(ip, k, cap) ==
    /\ scripts
    /\ ip_store[ip].n + k <= cap
    /\ ip_store' = [ip_store EXCEPT ![ip] = Throttled(@, k)]
    /\ UNCHANGED <<scripts, health_response, hist_store, lastpid_store, tok_store, pc, ws,
                   session_id, local, lastOut, turn, reads>>

(***************************************************************************)
(* The store's expiry of the limiter keys.  The history and the last item  *)
(* are written with a TTL of a day (REDIS_TTL), which no connection here   *)
(* outlives: their expiry is not modelled.                                 *)
(***************************************************************************)
ExpireIp(ip) ==
    /\ ip_store[ip].n > 0
    /\ ip_store[ip].ttl > 0
    /\ ip_store' = [ip_store EXCEPT ![ip] = NoKeyIp]
    /\ UNCHANGED <<scripts, health_response, hist_store, lastpid_store, tok_store, pc, ws,
                   session_id, local, lastOut, turn, reads>>

ExpireTok(s) ==
    /\ tok_store[s].set
    /\ tok_store[s].ttl > 0
    /\ tok_store' = [tok_store EXCEPT ![s] = NoKeyTok]
    /\ turn' = [c \in Conns |->
                   IF session_id[c] = s
                   THEN [turn[c] EXCEPT !.charged = 0] ELSE turn[c]]
    /\ UNCHANGED <<scripts, health_response, hist_store, lastpid_store, ip_store, pc, ws,
                   session_id, local, lastOut, reads>>

(***************************************************************************)
(* Inputs and bounds                                                       *)
(***************************************************************************)
\* frames read, over all connections, in one behaviour of Spec
MaxReads == 2

\* matches returned by one retrieval call
MaxMatches == 2

\* what the clients send; the session a client names is its own choice:
\* here, the other connection's identifier
Frames ==
    {NotJson, JsonFrame(MissingSession, MissingMessage)}
    \cup {JsonFrame(MissingSession, StrMessage(m)) : m \in {M_CABLE, M_BOMB, M_CART}}
    \cup {JsonFrame(StrSession("u2"), StrMessage(M_CART))}

\* what redis.get("greeting:<merchant>") returns (<<>>: no such key)
Greetings == {<<>>, <<"H","i","!">>}

\* the matches of the vector index
Match(id, variantId, hasMeta, score) ==
    [id |-> id, variantId |-> variantId, hasMeta |-> hasMeta, score |-> score]

\* query(text, k=1) of max_similarity: no match, or one with some score
GateResults ==
    {<<>>} \cup {<<Match("p1", "v1", TRUE, sc)>> : sc \in {19, 20, 59}}

RetrievalMatches ==
    {Match("p1", "v1", TRUE, 75), Match("p2", "", TRUE, 59),
     Match("p3", "", FALSE, 40)}

\* the sequences of at most n distinct elements of S
SeqsUpTo(S, n) ==
    UNION {{q \in [1..k -> S] : \A i, j \in 1..k : q[i] = q[j] => i = j} :
              k \in 0..n}

\* query(text, k=4): distinct matches
RetrievalResults == SeqsUpTo(RetrievalMatches, MaxMatches)

\* what one completion call returns
Completions ==
    {[content |-> A_OK, total_tokens |-> 5000],
     [content |-> A_OK, total_tokens |-> 15000],
     [content |-> A_HEDGE, total_tokens |-> 5000],
     [content |-> A_BRAND, total_tokens |-> 5000]}

\* what create_checkout returns
CheckoutUrls == {URL_1, URL_2}

(***************************************************************************)
(* Specifications                                                          *)
(***************************************************************************)
\* the steps of connection c that take no input
Step(c) ==
    \/ Accept(c)
    \/ GreetFault(c)
    \/ Disconnect(c)
    \/ Validate(c)
    \/ RateCheck(c)
    \/ Route(c)
    \/ CartLookup(c)
    \/ LoadHistory(c)
    \/ SaveHistory(c)
    \/ Consume(c)
    \/ Reply(c)
    \/ BudgetClose(c)
    \/ Fault(c)

\* one connection and every input
Next ==
    \/ Step("c1")
    \/ \E stored \in Greetings : Greet("c1", stored)
    \/ \E raw \in Frames : Receive("c1", raw, MaxReads)
    \/ \E moderation \in ModerationOutcomes \cup {"none"} :
          ContentCheck("c1", moderation)
    \/ \E webUrl \in CheckoutUrls : Checkout("c1", webUrl)
    \/ \E match \in GateResults : OffTopicGate("c1", match)
    \/ \E matches \in RetrievalResults : Retrieve("c1", matches)
    \/ \E chat, chat2 \in Completions : Answer("c1", chat, chat2)
    \/ \E s \in SessionIds : ExpireTok(s)

Spec == Init /\ [][Next]_vars

\* chat_ws is a coroutine on the event loop: when it can take a step of its
\* own, it is resumed
FairSpec == Spec /\ WF_vars(Step("c1"))

(***************************************************************************)
(* One connection answering question after question: what the stored       *)
(* history becomes over several answered turns.                            *)
(***************************************************************************)
\* frames read in one behaviour of SpecWindow
MaxWindowReads == 4

WindowFrames == {JsonFrame(MissingSession, StrMessage(M_CABLE))}

WindowGateResults == {g \in GateResults : max_similarity(g) >= OFF_TOPIC_THRESHOLD}

WindowRetrievals == {r \in RetrievalResults : Len(r) <= 1}

WindowCompletions ==
    {chat \in Completions :
        chat.total_tokens = 5000 /\ chat.content \in {A_OK, A_BRAND}}

NextWindow ==
    \/ Accept("c1")
    \/ Greet("c1", <<>>)
    \/ \E raw \in WindowFrames : Receive("c1", raw, MaxWindowReads)
    \/ Validate("c1")
    \/ RateCheck("c1")
    \/ ContentCheck("c1", "clean")
    \/ Route("c1")
    \/ \E match \in WindowGateResults : OffTopicGate("c1", match)
    \/ \E matches \in WindowRetrievals : Retrieve("c1", matches)
    \/ LoadHistory("c1")
    \/ \E chat \in WindowCompletions : Answer("c1", chat, chat)
    \/ SaveHistory("c1")
    \/ Consume("c1")
    \/ Reply("c1")
    \/ BudgetClose("c1")
    \/ \E s \in SessionIds : ExpireTok(s)

SpecWindow == Init /\ [][NextWindow]_vars

(***************************************************************************)
(* Two connections from one address sending message after message: the     *)
(* per-address limiter over a window and past its expiry.  The messages    *)
(* are ones the content filter refuses, so that a turn ends at the filter. *)
(***************************************************************************)
\* frames read, over both connections, in one behaviour of SpecThrottle
MaxThrottleReads == 22

ThrottleFrames == {JsonFrame(MissingSession, StrMessage(M_BOMB))}

NextThrottle ==
    \E c \in Conns :
        \/ Accept(c)
        \/ Greet(c, <<>>)
        \/ \E raw \in ThrottleFrames : Receive(c, raw, MaxThrottleReads)
        \/ Validate(c)
        \/ RateCheck(c)
        \/ ContentCheck(c, "none")
        \/ ExpireIp(ClientHost(c))

SpecThrottle == Init /\ [][NextThrottle]_vars

(***************************************************************************)
(* Two connections from one address (two tabs of a browser) sending        *)
(* message after message within one window of the limiter, their steps     *)
(* interleaved in every way.                                               *)
(***************************************************************************)
\* frames read, over both connections, in one behaviour of SpecTabs
MaxTabsReads == 22

NextTabs ==
    \E c \in Conns :
        \/ Accept(c)
        \/ Greet(c, <<>>)
        \/ \E raw \in ThrottleFrames : Receive(c, raw, MaxTabsReads)
        \/ Validate(c)
        \/ RateCheck(c)
        \/ ContentCheck(c, "none")

SpecTabs == Init /\ [][NextTabs]_vars

(***************************************************************************)
(* The health probe requested at any time while two connections send      *)
(* their messages.                                                         *)
(***************************************************************************)
\* frames read, over both connections, in one behaviour of SpecHealth
MaxHealthReads == 3

NextHealth ==
    \/ \E ping \in Pings : Health(ping)
    \/ \E c \in Conns :
          \/ Accept(c)
          \/ Greet(c, <<>>)
          \/ \E raw \in ThrottleFrames : Receive(c, raw, MaxHealthReads)
          \/ Validate(c)
          \/ RateCheck(c)
          \/ ContentCheck(c, "none")

SpecHealth == Init /\ [][NextHealth]_vars

(***************************************************************************)
(* One connection at an address that other clients use too: questions      *)
(* that are answered, frames that fail validation and messages that the    *)
(* content filter or the off-topic gate rejects, while the address's       *)
(* window fills up and expires.                                            *)
(***************************************************************************)
\* frames read in one behaviour of SpecBusy
MaxBusyReads == 2

BusyFrames ==
    {NotJson} \cup
    {JsonFrame(MissingSession, StrMessage(m)) : m \in {M_CABLE, M_BOMB}}

BusyRetrievals == {r \in RetrievalResults : Len(r) = 1}

BusyCompletions ==
    {chat \in Completions : chat.total_tokens = 5000 /\ chat.content = A_OK}

NextBusy ==
    \/ Accept("c1")
    \/ Greet("c1", <<>>)
    \/ \E raw \in BusyFrames : Receive("c1", raw, MaxBusyReads)
    \/ Validate("c1")
    \/ RateCheck("c1")
    \/ \E moderation \in {"none", "clean"} : ContentCheck("c1", moderation)
    \/ Route("c1")
    \/ \E match \in GateResults : OffTopicGate("c1", match)
    \/ \E matches \in BusyRetrievals : Retrieve("c1", matches)
    \/ LoadHistory("c1")
    \/ \E chat \in BusyCompletions : Answer("c1", chat, chat)
    \/ SaveHistory("c1")
    \/ Consume("c1")
    \/ Reply("c1")
    \/ OtherTraffic(ClientHost("c1"), IP_LIMIT, IP_LIMIT + MaxBusyReads)
    \/ ExpireIp(ClientHost("c1"))

SpecBusy == Init /\ [][NextBusy]_vars

(***************************************************************************)
(* The same connection sending cart intents as well: every outcome a       *)
(* validated message can have, at an address whose window fills up and     *)
(* expires.                                                                *)
(***************************************************************************)
\* frames read in one behaviour of SpecCount
MaxCountReads == 2

CountFrames == BusyFrames \cup {JsonFrame(MissingSession, StrMessage(M_CART))}

NextCount ==
    \/ Accept("c1")
    \/ Greet("c1", <<>>)
    \/ \E raw \in CountFrames : Receive("c1", raw, MaxCountReads)
    \/ Validate("c1")
    \/ RateCheck("c1")
    \/ \E moderation \in {"none", "clean"} : ContentCheck("c1", moderation)
    \/ Route("c1")
    \/ CartLookup("c1")
    \/ \E webUrl \in {URL_1} : Checkout("c1", webUrl)
    \/ \E match \in GateResults : OffTopicGate("c1", match)
    \/ \E matches \in BusyRetrievals : Retrieve("c1", matches)
    \/ LoadHistory("c1")
    \/ \E chat \in BusyCompletions : Answer("c1", chat, chat)
    \/ SaveHistory("c1")
    \/ Consume("c1")
    \/ Reply("c1")
    \/ OtherTraffic(ClientHost("c1"), IP_LIMIT, IP_LIMIT + MaxCountReads)
    \/ ExpireIp(ClientHost("c1"))

SpecCount == Init /\ [][NextCount]_vars

(***************************************************************************)
(* The same connection, with every way its handler ends: the rate limit,   *)
(* the exhausted budget, a call that raises, and the peer leaving.         *)
(***************************************************************************)
CloseCompletions ==
    {chat \in Completions : chat.total_tokens = 15000 /\ chat.content = A_OK}

NextClose ==
    \/ NextBusy
    \/ GreetFault("c1")
    \/ Disconnect("c1")
    \/ \E chat \in CloseCompletions : Answer("c1", chat, chat)
    \/ BudgetClose("c1")
    \/ Fault("c1")

SpecClose == Init /\ [][NextClose]_vars

(***************************************************************************)
(* Two connections open at the same time, their turns interleaved step by  *)
(* step: questions that are answered and add-to-cart messages, in frames   *)
(* that name no session, a null or a numeric one, or the identifier of     *)
(* the other connection's session.                                         *)
(***************************************************************************)
\* frames read, over both connections, in one behaviour of SpecPair
MaxPairReads == 3

\* the session member of the frames connection c sends
PairSessions(c) ==
    IF c = "c1"
    THEN {MissingSession, NumSession, StrSession(Uuid("c2"))}
    ELSE {NullSession, StrSession(Uuid("c1"))}

PairFrames(c) ==
    {JsonFrame(session, StrMessage(m)) :
        session \in PairSessions(c), m \in {M_CABLE, M_CART}}

PairGateResults == {g \in GateResults : max_similarity(g) = 59}

PairRetrievals ==
    {r \in RetrievalResults : Len(r) = 1 /\ r[1].hasMeta /\ r[1].variantId # ""}

PairCompletions ==
    {chat \in Completions : chat.total_tokens = 5000 /\ chat.content = A_OK}

NextPair ==
    \E c \in Conns :
        \/ Accept(c)
        \/ Greet(c, <<>>)
        \/ \E raw \in PairFrames(c) : Receive(c, raw, MaxPairReads)
        \/ Validate(c)
        \/ RateCheck(c)
        \/ ContentCheck(c, "clean")
        \/ Route(c)
        \/ CartLookup(c)
        \/ Checkout(c, URL_1)
        \/ \E match \in PairGateResults : OffTopicGate(c, match)
        \/ \E matches \in PairRetrievals : Retrieve(c, matches)
        \/ LoadHistory(c)
        \/ \E chat \in PairCompletions : Answer(c, chat, chat)
        \/ SaveHistory(c)
        \/ Consume(c)
        \/ Reply(c)

SpecPair == Init /\ [][NextPair]_vars

(***************************************************************************)
(* Properties                                                              *)
(***************************************************************************)
\* the socket of c has not been closed by the server
NotClosedByServer(c) == ws[c].state = "open" \/ ws[c].by = "peer"

\* the turn of c has written neither the history nor the last item of its
\* session, which are as they were when the frame was read
SessionKeysUntouched(c) ==
    /\ turn[c].histWrites = 0
    /\ turn[c].pidWrites = 0
    /\ hist_store[session_id[c]] = turn[c].hist0
    /\ lastpid_store[session_id[c]] = turn[c].pid0

\* the turn of c has called neither retrieval, completion nor checkout, and
\* has consumed no budget
NoDownstreamCalls(c) ==
    /\ turn[c].retrievals = 0
    /\ turn[c].completions = 0
    /\ turn[c].checkouts = 0
    /\ turn[c].consumes = 0

\* C1, as the claim states it: the history stored for a session never holds
\* more than MAX_TURNS messages.  chat_ws truncates to MAX_TURNS before it
\* appends the assistant's message, so that the fourth answered turn of a
\* session stores MAX_TURNS + 1 messages: SpecWindow violates this.
C1_StoredHistoryWithinMaxTurns ==
    \A s \in SessionIds : Len(hist_store[s]) <= MAX_TURNS

\* C2: a turn rejected by the off-topic gate (a similarity under
\* OFF_TOPIC_THRESHOLD) leaves the stored history and last item as they
\* were, has made no retrieval with k = 4, no completion and no budget
\* consumption, has sent the canned redirect as its one reply, and leaves
\* the connection open for the next read.
C2_OffTopicRejectLeavesSessionAlone ==
    \A c \in Conns :
        turn[c].outcome = "off_topic" =>
            /\ turn[c].similarities = 1
            /\ turn[c].score < OFF_TOPIC_THRESHOLD
            /\ SessionKeysUntouched(c)
            /\ NoDownstreamCalls(c)
            /\ turn[c].histReads = 0
            /\ turn[c].sent = 1
            /\ lastOut[c] = WsOut(session_id[c], OFF_TOPIC_REPLY)
            /\ NotClosedByServer(c)
            /\ pc[c] \in {"recv", "done"}

\* an off-topic rejection in a session that has a history and a last item
C2_Witness ==
    \E c \in Conns :
        /\ turn[c].outcome = "off_topic"
        /\ pc[c] = "recv"
        /\ ws[c].state = "open"
        /\ hist_store[session_id[c]] # <<>>
        /\ lastpid_store[session_id[c]] # ""

\* C3: an add-to-cart message in a session with no last item asks which
\* cable and never reaches create_checkout; in a session with a last item
\* create_checkout is called exactly once, with that item and quantity 1,
\* and the reply carries the link the call returned.
C3_CartIntentUsesLastItem ==
    \A c \in Conns :
        /\ turn[c].outcome = "cart_ask" =>
              /\ IsCartIntent(turn[c].message)
              /\ turn[c].pid0 = ""
              /\ turn[c].checkouts = 0
              /\ turn[c].sent = 1
              /\ lastOut[c] = WsOut(session_id[c], WHICH_CABLE)
        /\ pc[c] = "checkout" =>
              /\ IsCartIntent(turn[c].message)
              /\ turn[c].pid0 # ""
              /\ local[c].pid = turn[c].pid0
              /\ turn[c].checkouts = 0
        /\ turn[c].outcome = "cart_checkout" =>
              /\ IsCartIntent(turn[c].message)
              /\ turn[c].pid0 # ""
              /\ turn[c].checkouts = 1
              /\ turn[c].checkout = <<[variant |-> turn[c].pid0, qty |-> 1]>>
              /\ turn[c].sent = 1
              /\ lastOut[c] = WsOut(session_id[c], ADDED_PREFIX \o turn[c].webUrl)
              /\ turn[c].webUrl \in CheckoutUrls
        /\ turn[c].checkouts > 0 => turn[c].outcome = "cart_checkout"

\* a checkout made for the item an earlier answered turn recorded
C3_Witness ==
    \E c \in Conns :
        /\ turn[c].outcome = "cart_checkout"
        /\ turn[c].pid0 = "v1"
        /\ turn[c].webUrl = URL_2
        /\ Contains(lastOut[c].answer, URL_2)

\* C4: every answer produced by smart_answer has passed the brand scrub
\* before it is stored or sent: a text matching the competitor pattern is
\* replaced as a whole by the brand-safe message, any other text is left
\* as it is, and no stored or sent answer matches the pattern.
C4_AnswersAreScrubbed ==
    /\ \A c \in Conns :
          /\ pc[c] \in {"save", "consume", "reply", "exhausted"} =>
                /\ local[c].answer =
                      IF COMPETITOR_CABLES_search(turn[c].raw)
                      THEN BRAND_SAFE_MESSAGE
                      ELSE turn[c].raw
                /\ ~COMPETITOR_CABLES_search(local[c].answer)
                /\ local[c].hist[Len(local[c].hist)] =
                      [role |-> "assistant", content |-> local[c].answer]
          /\ turn[c].outcome = "answered" =>
                /\ lastOut[c].type = "answer"
                /\ ~COMPETITOR_CABLES_search(lastOut[c].answer)
                /\ hist_store[session_id[c]] # <<>>
                /\ hist_store[session_id[c]][Len(hist_store[session_id[c]])] =
                      [role |-> "assistant", content |-> lastOut[c].answer]
    /\ \A s \in SessionIds : \A i \in 1..Len(hist_store[s]) :
          hist_store[s][i].role = "assistant" =>
              ~COMPETITOR_CABLES_search(hist_store[s][i].content)

\* the fallback completion names a competitor and the answer about to be
\* sent is the brand-safe message
C4_Witness ==
    \E c \in Conns :
        /\ pc[c] = "reply"
        /\ turn[c].completions = 2
        /\ COMPETITOR_CABLES_search(turn[c].raw)
        /\ turn[c].raw # BRAND_SAFE_MESSAGE
        /\ local[c].answer = BRAND_SAFE_MESSAGE

\* the budget a session has left: the key's value, the full budget without
\* a key
Remaining(key) == IF key.set THEN key.val ELSE SESSION_BUDGET

\* C5: the budget a session identifier has left never increases while its
\* key is in the store: from one consume_tokens call to the next it stays
\* or falls, and it is the full budget again only by the key's expiry.
C5_BudgetOnlyFalls ==
    [][\A s \in SessionIds :
          /\ Remaining(tok_store'[s]) > Remaining(tok_store[s]) =>
                /\ tok_store[s].set
                /\ ~tok_store'[s].set
                /\ tok_store[s].ttl = SESSION_TTL
          /\ (tok_store[s].set /\ tok_store'[s].set) =>
                /\ tok_store'[s].val <= tok_store[s].val
                /\ tok_store'[s].ttl = SESSION_TTL]_vars

\* a consume_tokens call has taken 5000 from a key that held 10000
C5_Witness ==
    \E c \in Conns :
        /\ pc[c] = "reply"
        /\ turn[c].consumes = 1
        /\ turn[c].usage = <<5000>>
        /\ tok_store[session_id[c]].set
        /\ tok_store[session_id[c]].val = 5000

\* the exhaustion notice has been sent on c and the server has closed it
NoticedAndClosed(c) ==
    /\ pc[c] = "done"
    /\ ws[c].state = "closed"
    /\ ws[c].by = "server"
    /\ lastOut[c] = WsOut(session_id[c], BUDGET_NOTICE)
    /\ turn[c].sent = 1
    /\ turn[c].outcome = "exhausted"

\* C6: once consume_tokens has signalled exhaustion on a connection, the
\* notice is the one frame sent in the turn (the answer is not), the
\* connection is closed by the server, and no further frame is read on it:
\* no new turn ever starts there.
C6_ExhaustionEndsConnection ==
    /\ [](\A c \in Conns :
             turn[c].exhausted =>
                \/ /\ pc[c] = "exhausted"
                   /\ ws[c].state = "open"
                   /\ turn[c].sent = 0
                   /\ lastOut[c] = NoFrame
                \/ NoticedAndClosed(c))
    /\ [][\A c \in Conns : turn[c].exhausted => turn'[c].exhausted]_vars
    /\ \A c \in Conns : turn[c].exhausted ~> NoticedAndClosed(c)

\* a connection closed on exhaustion after its answer was stored
C6_Witness ==
    \E c \in Conns :
        /\ turn[c].exhausted
        /\ NoticedAndClosed(c)
        /\ hist_store[session_id[c]] # <<>>
        /\ reads < MaxReads

\* C7: each validated message of an address adds one to the address's count
\* in the current window; the messages counted 1 to IP_LIMIT pass and the
\* one counted IP_LIMIT + 1 is refused (the socket is closed with 4008); the
\* first message after the key's expiry is counted 1, passes, and starts a
\* window of IP_WINDOW_SEC seconds that later messages do not extend.
C7_TwentyPerWindow ==
    [][\A c \in Conns :
          (scripts /\ pc[c] = "rate" /\ pc'[c] # "rate") =>
              LET key  == ip_store[ClientHost(c)]
                  key2 == ip_store'[ClientHost(c)]
              IN  /\ key2.n = key.n + 1
                  /\ turn'[c].throttles = 1
                  /\ key.n < IP_LIMIT =>
                        /\ pc'[c] = "content"
                        /\ ws'[c] = ws[c]
                  /\ key.n >= IP_LIMIT =>
                        /\ pc'[c] = "done"
                        /\ ws'[c] = [state |-> "closed",
                                     code |-> CLOSE_RATE_LIMIT,
                                     by |-> "server"]
                        /\ lastOut'[c] = NoFrame
                  /\ key2.ttl = IF key.n = 0 THEN IP_WINDOW_SEC ELSE key.ttl]_vars

\* one connection was refused as the 21st of its window and, the key having
\* expired, the other one's next message has passed as the first of a new
\* window
C7_Witness ==
    \E c, d \in Conns :
        /\ scripts
        /\ turn[c].outcome = "rate_limited"
        /\ ws[c].code = CLOSE_RATE_LIMIT
        /\ pc[d] = "content"
        /\ ip_store[ClientHost(d)].n = 1
        /\ ip_store[ClientHost(d)].ttl = IP_WINDOW_SEC

\* C8: a frame that fails validation gets exactly one error payload; the
\* connection stays open for the next read; no rate check, content filter,
\* routing or later stage runs for it, and no stored state changes.
C8_InvalidPayloadStopsTurn ==
    \A c \in Conns :
        /\ turn[c].outcome = "invalid" =>
              /\ ~model_validate_json(turn[c].frame).ok
              /\ turn[c].sent = 1
              /\ lastOut[c] = ErrorOut(model_validate_json(turn[c].frame).errors)
              /\ lastOut[c].details # <<>>
              /\ NotClosedByServer(c)
              /\ pc[c] \in {"recv", "done"}
              /\ ~turn[c].validated
              /\ turn[c].throttles = 0
              /\ turn[c].filters = 0
              /\ turn[c].moderations = 0
              /\ ~turn[c].routed
              /\ turn[c].pidReads = 0
              /\ turn[c].similarities = 0
              /\ turn[c].histReads = 0
              /\ NoDownstreamCalls(c)
              /\ SessionKeysUntouched(c)
        /\ (turn[c].outcome = "pending" /\ pc[c] # "validate") =>
              model_validate_json(turn[c].frame).ok

\* an invalid frame answered in a session that has a history
C8_Witness ==
    \E c \in Conns :
        /\ turn[c].outcome = "invalid"
        /\ lastOut[c].type = "error"
        /\ pc[c] = "recv"
        /\ hist_store[session_id[c]] # <<>>

\* msg, lower-cased, contains one of the blocked keywords
HasBlockedKeyword(msg) == \E word \in BAD_TOPICS : Contains(Lower(msg), word)

\* C9: a message with a blocked keyword that the rate limit lets through
\* to the content filter gets the canned refusal, the same whatever the
\* session holds and however often it is sent, as its one reply; the turn
\* calls neither moderation, retrieval, completion nor checkout, consumes
\* no budget, leaves history and last item as they were, and the
\* connection stays open.
C9_BlockedKeywordRefused ==
    \A c \in Conns :
        (turn[c].filters > 0 /\ HasBlockedKeyword(turn[c].message)) =>
            /\ turn[c].outcome = "blocked"
            /\ turn[c].throttles = 1
            /\ turn[c].filters = 1
            /\ turn[c].moderations = 0
            /\ turn[c].sent = 1
            /\ lastOut[c] = WsOut(session_id[c], REFUSAL)
            /\ ~turn[c].routed
            /\ turn[c].similarities = 0
            /\ NoDownstreamCalls(c)
            /\ SessionKeysUntouched(c)
            /\ NotClosedByServer(c)
            /\ pc[c] \in {"recv", "done"}

\* a keyword typed in capitals refused in a session that has a history and
\* a last item
C9_Witness ==
    \E c \in Conns :
        /\ turn[c].outcome = "blocked"
        /\ turn[c].message = M_BOMB
        /\ ~(\E word \in BAD_TOPICS : Contains(turn[c].message, word))
        /\ pc[c] = "recv"
        /\ hist_store[session_id[c]] # <<>>
        /\ lastpid_store[session_id[c]] # ""

\* C9, as the claim states it: every validated message with a blocked
\* keyword is answered with the canned refusal once its turn is over.  The
\* rate check comes before the content filter: a keyword message that is
\* the 21st of its address's window is not answered at all, the connection
\* being closed with 4008.  SpecBusy violates this.
C9_EveryKeywordMessageRefused ==
    \A c \in Conns :
        (/\ turn[c].validated
         /\ HasBlockedKeyword(turn[c].message)
         /\ turn[c].outcome \notin {"pending", "fault"}) =>
            /\ turn[c].outcome = "blocked"
            /\ lastOut[c] = WsOut(session_id[c], REFUSAL)
            /\ NotClosedByServer(c)

\* the outcomes of a turn that end it with a reply, and with a close
Replied == {"invalid", "blocked", "cart_ask", "cart_checkout", "off_topic",
            "answered"}

ClosedOut == {"rate_limited", "exhausted", "fault"}

\* C10: for every frame read on a connection the server sends exactly one
\* reply or closes the connection before it reads again: while a turn is in
\* progress nothing has been sent, a turn ends with one frame sent and the
\* loop back at the read, or with the socket closed, and a frame is read
\* only where no turn is in progress.
C10_OneReplyOrClosePerMessage ==
    \A c \in Conns :
        /\ turn[c].sent <= 1
        /\ turn[c].outcome = "pending" <=>
              pc[c] \in {"validate", "rate", "content", "route", "cart",
                         "checkout", "gate", "retrieve", "load", "answer",
                         "save", "consume", "reply", "exhausted"}
        /\ turn[c].outcome = "pending" =>
              /\ turn[c].sent = 0
              /\ lastOut[c] = NoFrame
              /\ ws[c].state = "open"
        /\ turn[c].outcome \in Replied =>
              /\ turn[c].sent = 1
              /\ lastOut[c].type \in {"answer", "error"}
              /\ pc[c] \in {"recv", "done"}
              /\ NotClosedByServer(c)
        /\ turn[c].outcome \in ClosedOut =>
              /\ pc[c] = "done"
              /\ ws[c].state = "closed"
              /\ ws[c].by = "server"
              /\ turn[c].sent = (IF turn[c].outcome = "exhausted" THEN 1 ELSE 0)
        /\ pc[c] = "recv" => turn[c].outcome \in Replied \cup {"none"}

\* the second frame of a connection is about to be answered, the first
\* having been answered
C10_Witness ==
    \E c \in Conns :
        /\ reads = 2
        /\ turn[c].outcome = "pending"
        /\ pc[c] = "reply"
        /\ Len(hist_store[session_id[c]]) = 4

\* C11: the retrieval step of a turn that passed the off-topic gate sets
\* the session's last item to the variant identifier of the first item
\* retrieved, or to that item's id when it has no variant identifier; with
\* nothing retrieved it leaves the last item alone; either way the turn
\* goes on to load the history.  No other step changes a last item, and
\* the checkout stage takes the last item as stored: a cart turn checks out
\* the first item of the latest non-empty retrieval of the session.
C11_LastItemFollowsRetrieval ==
    [][/\ \A c \in Conns :
             /\ (pc[c] = "retrieve" /\
                   turn'[c].retrievals = turn[c].retrievals + 1) =>
                   LET ctx == local'[c].context
                       s   == session_id[c]
                   IN  /\ pc'[c] = "load"
                       /\ ws'[c] = ws[c]
                       /\ turn'[c].outcome = "pending"
                       /\ ctx # <<>> =>
                             lastpid_store'[s] =
                                IF ctx[1].variantId # ""
                                THEN ctx[1].variantId
                                ELSE ctx[1].id
                       /\ ctx = <<>> => lastpid_store'[s] = lastpid_store[s]
             /\ (pc[c] = "cart" /\ pc'[c] = "checkout") =>
                   local'[c].pid = lastpid_store[session_id[c]]
       /\ \A s \in SessionIds :
             lastpid_store'[s] # lastpid_store[s] =>
                \E c \in Conns :
                   /\ session_id[c] = s
                   /\ pc[c] = "retrieve"
                   /\ local'[c].context # <<>>]_vars

\* a cart turn about to check out an item that has no variant identifier:
\* the id an earlier retrieval of the session put first
C11_Witness ==
    \E c \in Conns :
        /\ pc[c] = "checkout"
        /\ local[c].pid = "p2"
        /\ lastpid_store[session_id[c]] = "p2"

\* C12, as the claim states it: the off-topic gate rejects a turn exactly
\* when the query's maximum similarity is under the off_topic_threshold
\* setting (0.60): a turn the gate let through to retrieval scored at least
\* the setting, and a turn it rejected scored less.  chat_ws compares with
\* its own constant OFF_TOPIC_THRESHOLD (0.20) and never reads the setting,
\* so that a query scoring 0.20 or 0.59 goes on to retrieval: Spec violates
\* this.
C12_GateRejectsBelowSetting ==
    \A c \in Conns :
        /\ (pc[c] = "retrieve" /\ turn[c].similarities = 1) =>
              turn[c].score >= off_topic_threshold
        /\ turn[c].outcome = "off_topic" =>
              turn[c].score < off_topic_threshold

\* C13, as the claim states it: a connection the server closed carries a
\* code other than the normal close code (the code of a close call without
\* arguments), and the code tells the cause: 4008 only for the rate limit,
\* 1011 only for a fault, a third code only for the exhausted budget.
\* chat_ws closes an exhausted session with ws.close(), whose code is the
\* normal one: Spec violates this.
C13_CloseCodesTellCausesApart ==
    \A c \in Conns :
        ws[c].by = "server" =>
            /\ ws[c].code # CLOSE_DEFAULT
            /\ ws[c].code = CLOSE_RATE_LIMIT <=> turn[c].outcome = "rate_limited"
            /\ ws[c].code = CLOSE_INTERNAL <=> turn[c].outcome = "fault"
            /\ ws[c].code \notin {CLOSE_RATE_LIMIT, CLOSE_INTERNAL}
                  <=> turn[c].outcome = "exhausted"

\* the outcomes of a turn that a guard stage other than the rate limit
\* rejected
GuardRejects == {"invalid", "blocked", "off_topic"}

\* how the turn of c stands once a guard stage has ended it
GuardStageEnds(c) ==
    /\ turn[c].outcome = "rate_limited" =>
          /\ ws[c] = [state |-> "closed", code |-> CLOSE_RATE_LIMIT,
                      by |-> "server"]
          /\ turn[c].sent = 0
          /\ lastOut[c] = NoFrame
          /\ pc[c] = "done"
    /\ turn[c].outcome \in GuardRejects =>
          /\ NotClosedByServer(c)
          /\ turn[c].sent = 1
          /\ lastOut[c] # NoFrame
          /\ local[c] = NoLocal
          /\ pc[c] \in {"recv", "done"}
          /\ pc[c] = "recv" <=> ws[c].state = "open"
    /\ (ws[c].by = "server" /\ turn[c].completions = 0
                            /\ turn[c].outcome # "fault") =>
          turn[c].outcome = "rate_limited"

\* C14: a rate-limited message ends with the connection closed by the
\* server (code 4008) and no frame sent for it; a turn rejected by
\* validation, the content filter or the off-topic gate has sent its one
\* reply and left the connection open at the read of the next frame; a
\* server-side close that comes before the answering stages of a turn that
\* did not fail is the rate limit's.  The frame read after a reject starts
\* a turn of its own at the validation stage, with nothing carried over
\* from the rejected turn.
C14_OnlyRateLimitCloses ==
    [][\A c \in Conns :
          /\ GuardStageEnds(c)'
          /\ (turn[c].outcome \in GuardRejects /\ reads' = reads + 1
                                               /\ pc'[c] # pc[c]) =>
                /\ pc'[c] = "validate"
                /\ ws'[c] = ws[c]
                /\ turn'[c] = NewTurn(c, local'[c].raw)
                /\ local'[c] = [NoLocal EXCEPT !.raw = local'[c].raw]
                /\ stores' = stores]_vars

\* the second frame of a connection is being answered although nothing was
\* stored for the first, which a guard stage rejected
C14_Witness ==
    \E c \in Conns :
        /\ reads = 2
        /\ pc[c] = "reply"
        /\ turn[c].hist0 = <<>>
        /\ turn[c].completions = 1
        /\ ws[c].state = "open"

\* C15: when the moderation call of a turn has raised, the message (which
\* holds no blocked keyword, or the call would not have been made) has
\* passed the content filter: the turn is at the routing stage, still
\* pending, with no frame sent and the connection open.  A turn the content
\* filter refused is one with a keyword or a flagged verdict.
C15_ModerationFailureIsNotFlagged ==
    \A c \in Conns :
        /\ turn[c].verdict = "error" =>
              /\ ~HasBlockedKeyword(turn[c].message)
              /\ turn[c].moderations = 1
              /\ pc[c] = "route"
              /\ turn[c].outcome = "pending"
              /\ turn[c].sent = 0
              /\ lastOut[c] = NoFrame
              /\ ws[c].state = "open"
        /\ turn[c].outcome = "blocked" =>
              \/ HasBlockedKeyword(turn[c].message)
              \/ turn[c].verdict = "flagged"

\* a question without keyword at the routing stage after its moderation
\* call raised
C15_Witness ==
    \E c \in Conns :
        /\ turn[c].verdict = "error"
        /\ turn[c].message = M_CABLE
        /\ pc[c] = "route"

\* C16, as the claim states it: a failure of the rate-limit store lets the
\* message through.  With the scripts not registered (store unreachable at
\* startup) no turn is rate-limited, and a turn whose script call raised at
\* the rate stage is neither failed nor closed by the server.  ip_throttle
\* has no handler around the script call: the exception reaches the handler
\* of chat_ws, which closes the connection with 1011.  Spec violates this.
C16_RateStoreFailureAllows ==
    \A c \in Conns :
        /\ ~scripts => turn[c].outcome # "rate_limited"
        /\ turn[c].faultAt = "rate" =>
              /\ turn[c].outcome # "fault"
              /\ NotClosedByServer(c)

\* the stages at which chat_ws calls the vector index, the completion
\* service and the checkout request
CollaboratorStages == {"gate", "retrieve", "answer", "checkout"}

\* C17, as the claim states it: a turn in which the retrieval, completion
\* or checkout call raised has sent no answer, and its connection has not
\* been closed by the server.  The exception is caught outside the read
\* loop, by the handler that closes the connection with 1011: Spec violates
\* this.
C17_CollaboratorFailureKeepsConnection ==
    \A c \in Conns :
        turn[c].faultAt \in CollaboratorStages =>
            /\ turn[c].sent = 0
            /\ lastOut[c] = NoFrame
            /\ NotClosedByServer(c)

\* C18, as the claim states it: a connection on which a call raised after
\* the accept, at the greeting or at any stage of a turn, has been closed
\* by the handler of chat_ws with 1011, and a connection the peer left has
\* had no close call.  The greeting is fetched and sent before the try
\* block is entered, so that an exception there is not caught by chat_ws at
\* all: Spec violates this.
C18_EveryFaultClosedWith1011 ==
    \A c \in Conns :
        /\ (pc[c] = "crashed" \/ turn[c].outcome = "fault") =>
              ws[c] = [state |-> "closed", code |-> CLOSE_INTERNAL,
                       by |-> "server"]
        /\ ws[c].by = "peer" => ws[c].code = 0

\* the turn of c has called neither the similarity search, the retrieval,
\* the completion service nor consume_tokens, and has not read the history
CartShortCircuit(c) ==
    /\ turn[c].similarities = 0
    /\ turn[c].retrievals = 0
    /\ turn[c].histReads = 0
    /\ turn[c].completions = 0
    /\ turn[c].consumes = 0
    /\ ~turn[c].exhausted

\* how a cart-intent turn of c stands, at its stages and once it is over
CartTurnEnds(c) ==
    /\ pc[c] \in {"cart", "checkout"} => CartShortCircuit(c)
    /\ turn[c].outcome \in {"cart_ask", "cart_checkout"} =>
          /\ CartShortCircuit(c)
          /\ SessionKeysUntouched(c)
          /\ turn[c].sent = 1
          /\ NotClosedByServer(c)
          /\ pc[c] \in {"recv", "done"}
          /\ pc[c] = "recv" <=> ws[c].state = "open"

\* C19: a cart-intent turn, whether it asks which cable or checks out, has
\* made no similarity, retrieval or completion call and no consume_tokens
\* call, has left history and last item as they were when its frame was
\* read, has sent its one reply, and is back at the read of the next frame
\* with the connection open; no step of its two stages that ends without
\* an exception writes any store key, the token budget included.
C19_CartIntentShortCircuits ==
    [][\A c \in Conns :
          /\ CartTurnEnds(c)'
          /\ (pc[c] \in {"cart", "checkout"} /\ pc'[c] # pc[c]
                                             /\ turn'[c].outcome # "fault") =>
                /\ stores' = stores
                /\ ws'[c] = ws[c]
                /\ pc'[c] \in {"checkout", "recv"}]_vars

\* a checkout made in a session that has a history and has spent part of
\* its budget, both as the earlier answered turn left them
C19_Witness ==
    \E c \in Conns :
        /\ turn[c].outcome = "cart_checkout"
        /\ pc[c] = "recv"
        /\ ws[c].state = "open"
        /\ hist_store[session_id[c]] # <<>>
        /\ Remaining(tok_store[session_id[c]]) < SESSION_BUDGET

\* C20, as the claim states it: the consume_tokens call that finds the
\* budget exhausted has charged the turn's spend to the session's budget
\* key: what the key holds after the call is what it held before, less the
\* tokens of the turn.  _SESSION_LUA returns -1 before its SET when the
\* spend exceeds what is left, so that the key is as it was before the
\* call: Spec violates this.
C20_ExhaustingSpendIsCharged ==
    [][\A c \in Conns :
          (/\ pc[c] = "consume"
           /\ turn'[c].consumes = turn[c].consumes + 1
           /\ turn'[c].exhausted) =>
              Remaining(tok_store'[session_id[c]]) =
                 Remaining(tok_store[session_id[c]]) - local[c].spent]_vars

RECURSIVE SumSeq(_)
\* the sum of a sequence of numbers
SumSeq(q) == IF q = <<>> THEN 0 ELSE Head(q) + SumSeq(Tail(q))

\* what the completion calls of the turn of c were given and returned,
\* while the turn stands between its answer and its reply
CompletionCallsOf(c) ==
    turn[c].prompts # <<>> =>
        LET n == turn[c].completions
        IN  /\ n \in {1, 2}
            /\ Len(turn[c].prompts) = n
            /\ Len(turn[c].replies) = n
            /\ Len(turn[c].usage) = n
            /\ turn[c].prompts[1].kind = "grounded"
            /\ turn[c].prompts[1].question = turn[c].message
            /\ n = 2 =>
                  /\ turn[c].prompts[2].kind = "loose"
                  /\ turn[c].prompts[2].context = <<>>
                  /\ turn[c].prompts[2].question = turn[c].message
            /\ local[c].spent = SumSeq(turn[c].usage)

\* C21: an answering turn calls the completion service once with the
\* grounded prompt built from the question and the retrieved context, and a
\* second time exactly when the first reply, stripped, starts with a hedge
\* phrase in any letter case; it makes one or two calls; the second prompt
\* is the loose one, without context; the answer returned is the last
\* call's reply, stripped and passed through the brand scrub; the tokens
\* returned are the sum over the calls made; and that sum is what the
\* following consume_tokens call is given.
C21_OneOrTwoCompletionCalls ==
    [][\A c \in Conns :
          /\ CompletionCallsOf(c)'
          /\ turn'[c].completions > turn[c].completions =>
                /\ turn[c].completions = 0
                /\ pc[c] = "answer"
                /\ turn'[c].prompts[1] =
                      prompt_with_context(local[c].message, local[c].context)
                /\ turn'[c].completions = 2 <=>
                      IsHedge(Strip(turn'[c].replies[1]))
                /\ turn'[c].raw =
                      Strip(turn'[c].replies[turn'[c].completions])
                /\ local'[c].answer = scrub_competitors(turn'[c].raw)
          /\ turn'[c].consumes = turn[c].consumes + 1 =>
                tok_store'[session_id[c]] =
                   consume_tokens(scripts, tok_store[session_id[c]],
                                  SumSeq(turn[c].usage)).key]_vars

\* a turn about to consume the tokens of two calls, the first reply being a
\* hedge written with a capital and a leading blank
C21_Witness ==
    \E c \in Conns :
        /\ pc[c] = "consume"
        /\ turn[c].replies = <<A_HEDGE, A_OK>>
        /\ turn[c].usage = <<5000, 5000>>
        /\ local[c].spent = 10000
        /\ scripts

\* the outcomes of a turn that ended before the answering stages
NotAnswering ==
    {"invalid", "rate_limited", "blocked", "cart_ask", "cart_checkout",
     "off_topic"}

\* the turn of c has written no history if it ended before answering or
\* failed before the write; a write comes after the completion calls and
\* before the budget is consumed
HistoryWrittenOnSuccess(c) ==
    /\ (\/ turn[c].outcome \in NotAnswering
        \/ (turn[c].outcome = "fault" /\ turn[c].faultAt # "consume")) =>
          /\ turn[c].histWrites = 0
          /\ hist_store[session_id[c]] = turn[c].hist0
    /\ turn[c].histWrites \in {0, 1}
    /\ turn[c].histWrites = 1 => turn[c].completions \in {1, 2}
    /\ turn[c].consumes > 0 => turn[c].histWrites = 1
    /\ turn[c].outcome \in {"answered", "exhausted"} => turn[c].histWrites = 1

\* C22: the stored history of a session changes only by the write of an
\* answering turn of its connection, made after the completion calls have
\* returned and before consume_tokens is called; what is written is the
\* history read for the turn with the user's message appended (cut to the
\* last MAX_TURNS messages) followed by the scrubbed answer.  A turn that
\* ended at validation, the rate limit, the content filter, the cart
\* handling or the off-topic gate, or in which a call before the write
\* raised, has written no history.
C22_HistoryWrittenOnlyOnAnswer ==
    [][/\ \A c \in Conns : HistoryWrittenOnSuccess(c)'
       /\ \A s \in SessionIds :
             hist_store'[s] # hist_store[s] =>
                \E c \in Conns :
                   /\ session_id[c] = s
                   /\ pc[c] = "save"
                   /\ turn[c].completions \in {1, 2}
                   /\ turn[c].consumes = 0
                   /\ turn'[c].histWrites = 1
                   /\ local[c].answer = scrub_competitors(turn[c].raw)
                   /\ hist_store'[s] =
                         WithUserTurn(hist_store[s], turn[c].message)
                            \o <<[role |-> "assistant",
                                  content |-> local[c].answer]>>]_vars

\* a second answering turn has written its history, whose last two
\* messages are the question and the brand-safe answer, and has not
\* consumed its tokens yet
C22_Witness ==
    \E c \in Conns :
        /\ pc[c] = "consume"
        /\ turn[c].histWrites = 1
        /\ turn[c].consumes = 0
        /\ turn[c].hist0 # <<>>
        /\ Len(hist_store[session_id[c]]) = 4
        /\ hist_store[session_id[c]][3] =
              [role |-> "user", content |-> turn[c].message]
        /\ hist_store[session_id[c]][4] =
              [role |-> "assistant", content |-> BRAND_SAFE_MESSAGE]

\* the session members _WsIn accepts: absent, null, or a string
AcceptedSessions ==
    {MissingSession, NullSession} \cup {StrSession(s) : s \in SessionIds}

\* what the turn of c holds and has sent comes from the session minted for
\* its connection, whatever session its frame names
OwnSessionOnly(c) ==
    /\ session_id[c] \in {"", Uuid(c)}
    /\ lastOut[c].type = "answer" => lastOut[c].session = Uuid(c)
    /\ pc[c] \in {"rate", "content", "route", "cart", "gate", "retrieve",
                  "load"} =>
          /\ hist_store[Uuid(c)] = turn[c].hist0
          /\ turn[c].frame.session \in AcceptedSessions
    /\ pc[c] = "checkout" => local[c].pid = lastpid_store[Uuid(c)]
    /\ pc[c] = "answer" =>
          local[c].hist = WithUserTurn(hist_store[Uuid(c)], turn[c].message)

\* C23, for the session values the schema accepts: the session identifier
\* of a connection is minted at the accept and never changes; every answer
\* frame, the greeting included, carries it; validation gives the same
\* result and the same message whichever accepted session value (absent,
\* null, any string) the frame carries; the history and the last item a
\* turn works with are those stored under the minted identifier; and a
\* step of a connection whose frame names another session leaves the
\* history, last item and budget stored for that session as they are.
C23_ClientSessionIgnored ==
    [][\A c \in Conns :
          /\ OwnSessionOnly(c)'
          /\ session_id'[c] # session_id[c] =>
                pc[c] = "connect" /\ session_id[c] = ""
          /\ (pc[c] = "validate" /\ pc'[c] # pc[c]
                /\ local[c].raw.session \in AcceptedSessions) =>
                \A other \in AcceptedSessions :
                   LET req == model_validate_json(local[c].raw)
                       alt == model_validate_json(
                                 [local[c].raw EXCEPT !.session = other])
                   IN  /\ alt.ok = req.ok
                       /\ alt.errors = req.errors
                       /\ alt.message = req.message
                       /\ pc'[c] = IF alt.ok THEN "rate" ELSE "recv"
          /\ (pc'[c] # pc[c] /\ local[c].session \in SessionIds
                             /\ local[c].session # session_id[c]) =>
                /\ hist_store'[local[c].session] = hist_store[local[c].session]
                /\ lastpid_store'[local[c].session] =
                      lastpid_store[local[c].session]
                /\ tok_store'[local[c].session] = tok_store[local[c].session]]_vars

\* an add-to-cart frame naming the other connection's session, which has a
\* last item, is asked which cable: its own session has none
C23_Witness ==
    \E c, d \in Conns :
        /\ c # d
        /\ turn[c].outcome = "cart_ask"
        /\ turn[c].frame.session = StrSession(Uuid(d))
        /\ session_id[d] = Uuid(d)
        /\ lastpid_store[Uuid(d)] # ""
        /\ lastpid_store[Uuid(c)] = ""
        /\ lastOut[c] = WsOut(Uuid(c), WHICH_CABLE)

\* C23, as the claim states it: the session value of a frame has no effect
\* on what is replied: a frame that is a JSON object with a string message
\* is never answered with the error payload.  A session value that is
\* neither a string nor null fails the validation of _WsIn: SpecPair
\* violates this.
C23_AnySessionValueIgnored ==
    \A c \in Conns :
        (turn[c].frame.json /\ turn[c].frame.message.tag = "str") =>
            /\ turn[c].outcome # "invalid"
            /\ lastOut[c].type # "error"

\* the ip_throttle calls made so far for the one client address, when
\* every frame read is valid: the frames read, less those still before
\* their rate check
ThrottleCalls ==
    reads - Cardinality({c \in Conns : /\ turn[c].outcome = "pending"
                                       /\ turn[c].throttles = 0})

\* the messages ip_throttle has refused: each ends its connection
ThrottleRefusals ==
    Cardinality({c \in Conns : turn[c].outcome = "rate_limited"})

\* C24: with the limiter's script registered and two connections of one
\* address interleaved in every way within one window, the address's count
\* is the number of ip_throttle calls made (no increment is lost), its
\* expiry was armed once, by the first call, and the messages that passed
\* are the first IP_LIMIT counted: never more than IP_LIMIT.
C24_NoLostUpdate ==
    scripts =>
        \A ip \in Ips :
            LET key == ip_store[ip]
                passed == ThrottleCalls - ThrottleRefusals
            IN  /\ key.n = ThrottleCalls
                /\ key.n > 0 => key.ttl = IP_WINDOW_SEC /\ key.arms = 1
                /\ passed <= IP_LIMIT
                /\ passed = IF key.n <= IP_LIMIT THEN key.n ELSE IP_LIMIT

\* both connections have been refused in the one window: twenty messages
\* passed, the twenty-first and the twenty-second were counted and refused
C24_Witness ==
    /\ scripts
    /\ \A c \in Conns : turn[c].outcome = "rate_limited"
    /\ \A ip \in Ips : ip_store[ip].n = IP_LIMIT + 2
    /\ ThrottleCalls - ThrottleRefusals = IP_LIMIT

\* C25: with two connections open at the same time and their turns
\* interleaved step by step, the sessions of different connections are
\* different; a step of one connection leaves the history, the last item
\* and the budget stored for every other session as they are; what a step
\* reads of these (the last item at the cart lookup, the history at the
\* load, the budget at the consume) is what is stored for the connection's
\* own session; and the address's rate count, which the steps of both
\* connections change, changes at the rate check only.
C25_SessionsDoNotInterfere ==
    [][\A c \in Conns :
          pc'[c] # pc[c] =>
             /\ \A d \in Conns \ {c} :
                   /\ Uuid(d) # Uuid(c)
                   /\ hist_store'[Uuid(d)] = hist_store[Uuid(d)]
                   /\ lastpid_store'[Uuid(d)] = lastpid_store[Uuid(d)]
                   /\ tok_store'[Uuid(d)] = tok_store[Uuid(d)]
             /\ (pc[c] = "cart" /\ pc'[c] = "checkout") =>
                   local'[c].pid = lastpid_store[Uuid(c)]
             /\ (pc[c] = "cart" /\ pc'[c] = "recv") =>
                   lastpid_store[Uuid(c)] = ""
             /\ pc[c] = "load" =>
                   local'[c].hist =
                      WithUserTurn(hist_store[Uuid(c)], local[c].message)
             /\ pc[c] = "consume" =>
                   tok_store'[Uuid(c)] =
                      consume_tokens(scripts, tok_store[Uuid(c)],
                                     local[c].spent).key
             /\ ip_store' # ip_store => pc[c] = "rate"]_vars

\* both connections are in the middle of a turn, one about to consume its
\* tokens with its history written, the other about to be answered in a
\* session that has no history; the address's count holds both messages
C25_Witness ==
    \E c, d \in Conns :
        /\ scripts
        /\ pc[c] = "consume"
        /\ pc[d] = "answer"
        /\ hist_store[Uuid(c)] # <<>>
        /\ hist_store[Uuid(d)] = <<>>
        /\ local[d].hist = <<[role |-> "user", content |-> turn[d].message]>>
        /\ lastpid_store[Uuid(d)] # ""
        /\ ip_store[ClientHost(c)].n = 2

\* C26, with the payload as the code builds it: a request to the health
\* probe returns {"status": "ok"} when the store answered the ping and
\* {"status": "degraded", "redis": "unreachable"} when the ping raised; it
\* returns nothing else, and an exception of the ping is never the
\* endpoint's.
C26_HealthPayload ==
    health_response # NoProbe =>
        /\ health_response.ping \in Pings
        /\ health_response.ping = "pong" =>
              health_response.payload = {<<"status", "ok">>}
        /\ health_response.ping = "raises" =>
              health_response.payload =
                 {<<"status", "degraded">>, <<"redis", "unreachable">>}
        /\ \A kv \in health_response.payload : kv[1] # "raised"

\* the probe has answered degraded, the ping having raised, while a
\* connection is in the middle of a turn
C26_Witness ==
    /\ health_response.ping = "raises"
    /\ <<"status", "degraded">> \in health_response.payload
    /\ Cardinality(health_response.payload) = 2
    /\ \E c \in Conns : pc[c] = "rate"

\* C26, as the claim states it: the payload is {"status": "ok"} or
\* {"status": "degraded", "store": "unreachable"}.  The second member of
\* the degraded payload has the key "redis": SpecHealth violates this.
C26_HealthPayloadKeyStore ==
    health_response # NoProbe =>
        health_response.payload \in
            {{<<"status", "ok">>},
             {<<"status", "degraded">>, <<"store", "unreachable">>}}

\* the stages in the order chat_ws runs them for a message that is not a
\* cart intent, each with the calls the turn has made when it stands there:
\* <<validated, rate checks, content checks, routed, similarity queries,
\* context retrievals, history reads, completions made, history writes,
\* budget consumptions>>
StageCalls ==
    [validate |-> <<FALSE, 0, 0, FALSE, 0, 0, 0, FALSE, 0, 0>>,
     rate     |-> <<TRUE,  0, 0, FALSE, 0, 0, 0, FALSE, 0, 0>>,
     content  |-> <<TRUE,  1, 0, FALSE, 0, 0, 0, FALSE, 0, 0>>,
     route    |-> <<TRUE,  1, 1, FALSE, 0, 0, 0, FALSE, 0, 0>>,
     cart     |-> <<TRUE,  1, 1, TRUE,  0, 0, 0, FALSE, 0, 0>>,
     checkout |-> <<TRUE,  1, 1, TRUE,  0, 0, 0, FALSE, 0, 0>>,
     gate     |-> <<TRUE,  1, 1, TRUE,  0, 0, 0, FALSE, 0, 0>>,
     retrieve |-> <<TRUE,  1, 1, TRUE,  1, 0, 0, FALSE, 0, 0>>,
     load     |-> <<TRUE,  1, 1, TRUE,  1, 1, 0, FALSE, 0, 0>>,
     answer   |-> <<TRUE,  1, 1, TRUE,  1, 1, 1, FALSE, 0, 0>>,
     save     |-> <<TRUE,  1, 1, TRUE,  1, 1, 1, TRUE,  0, 0>>,
     consume  |-> <<TRUE,  1, 1, TRUE,  1, 1, 1, TRUE,  1, 0>>,
     reply    |-> <<TRUE,  1, 1, TRUE,  1, 1, 1, TRUE,  1, 1>>,
     exhausted |-> <<TRUE, 1, 1, TRUE,  1, 1, 1, TRUE,  1, 1>>]

\* the calls the turn of c has made so far
CallsMade(c) ==
    <<turn[c].validated, turn[c].throttles, turn[c].filters, turn[c].routed,
      turn[c].similarities, turn[c].retrievals, turn[c].histReads,
      turn[c].completions > 0, turn[c].histWrites, turn[c].consumes>>

\* the stage that can follow a stage, within a turn and from turn to turn;
\* "done" and "crashed" are the ends of the handler
StageOrder ==
    {<<"connect", "greet">>, <<"greet", "recv">>, <<"greet", "crashed">>,
     <<"recv", "validate">>, <<"recv", "done">>,
     <<"validate", "rate">>, <<"validate", "recv">>,
     <<"rate", "content">>, <<"rate", "done">>,
     <<"content", "route">>, <<"content", "recv">>,
     <<"route", "cart">>, <<"route", "gate">>,
     <<"cart", "checkout">>, <<"cart", "recv">>, <<"cart", "done">>,
     <<"checkout", "recv">>, <<"checkout", "done">>,
     <<"gate", "retrieve">>, <<"gate", "recv">>, <<"gate", "done">>,
     <<"retrieve", "load">>, <<"retrieve", "done">>,
     <<"load", "answer">>, <<"load", "done">>,
     <<"answer", "save">>, <<"answer", "done">>,
     <<"save", "consume">>, <<"save", "done">>,
     <<"consume", "reply">>, <<"consume", "exhausted">>, <<"consume", "done">>,
     <<"reply", "recv">>, <<"exhausted", "done">>}

\* C27, in the order of the code: the greeting is sent before the first
\* frame is read; per frame the stages are validation, rate check, content
\* check, routing, and for a message that is not a cart intent the
\* off-topic check (a similarity query), then the context retrieval with
\* the write of the last item, then the history load and the completion,
\* the history write, the budget check and the reply; a stage is entered
\* only from the stage before it, with every earlier stage's call made
\* once and no later stage's call made.
C27_StagesInOrder ==
    [][\A c \in Conns :
          /\ pc'[c] # pc[c] => <<pc[c], pc'[c]>> \in StageOrder
          /\ (pc[c] = "greet" /\ pc'[c] = "recv") =>
                /\ lastOut'[c].type = "answer"
                /\ turn'[c] = NoTurn
          /\ pc'[c] \in DOMAIN StageCalls =>
                (CallsMade(c))' = StageCalls[pc'[c]]
          /\ (pc[c] = "route" /\ pc'[c] # pc[c]) =>
                pc'[c] = "cart" <=> IsCartIntent(local[c].message)]_vars

\* a turn at its context retrieval: the off-topic check has been made and
\* passed, nothing has been retrieved and the last item is still the one
\* the turn started with
C27_Witness ==
    \E c \in Conns :
        /\ pc[c] = "retrieve"
        /\ turn[c].similarities = 1
        /\ turn[c].score >= OFF_TOPIC_THRESHOLD
        /\ turn[c].retrievals = 0
        /\ turn[c].pid0 # ""
        /\ lastpid_store[session_id[c]] = turn[c].pid0

\* C27, as the claim states it: the context retrieval and the write of the
\* last item come before the off-topic check, so that a turn whose
\* off-topic check has been made has made its retrieval.  chat_ws makes
\* the off-topic check first and retrieves only for a message that passed
\* it: Spec violates this.
C27_RetrievalBeforeOffTopicCheck ==
    \A c \in Conns :
        turn[c].similarities > 0 => turn[c].retrievals > 0

\* the last n messages of h (n >= 0)
Newest(h, n) == SubSeq(h, Len(h) - n + 1, Len(h))

C29_NothingAfterClose ==
    [][/\ \A c \in Conns :
             ws[c].state = "closed" =>
                /\ pc[c] \in {"done", "crashed"}
                /\ pc'[c] = pc[c]
                /\ ws'[c] = ws[c]
                /\ turn'[c] = turn[c]
                /\ local'[c] = local[c]
                /\ lastOut'[c] = lastOut[c]
                /\ session_id'[c] = session_id[c]
                /\ hist_store'[session_id[c]] = hist_store[session_id[c]]
                /\ lastpid_store'[session_id[c]] = lastpid_store[session_id[c]]
                /\ tok_store'[session_id[c]] \in
                      {tok_store[session_id[c]], NoKeyTok}
       /\ (\A c \in Conns : ws[c].state # "open") => reads' = reads]_vars

\* the address's window has expired after the connection was closed for
\* the rate limit at its first frame, and nothing more has been read
C29_Witness ==
    \E c \in Conns :
        /\ ws[c] = [state |-> "closed", code |-> CLOSE_RATE_LIMIT,
                    by |-> "server"]
        /\ pc[c] = "done"
        /\ reads = 1
        /\ ip_store[ClientHost(c)] = NoKeyIp

\* the turn of c has found the budget exhausted: its question and its
\* answer are the last two messages of the stored history, and the last
\* item is the one its retrieval wrote, if it wrote one
ExhaustedTurnStored(c) ==
    LET h == hist_store[session_id[c]]
        t == turn[c].transcript
    IN  /\ turn[c].histWrites = 1
        /\ Len(h) >= 2
        /\ h[Len(h) - 1] = [role |-> "user", content |-> turn[c].message]
        /\ h[Len(h)].role = "assistant"
        /\ h[Len(h)] = t[Len(t)]
        /\ turn[c].pidWrites = 1 => lastpid_store[session_id[c]] # ""
        /\ turn[c].pidWrites = 0 => lastpid_store[session_id[c]] = turn[c].pid0

\* C30: when consume_tokens has found the budget exhausted, the user's
\* message and the computed answer are already in the stored history and
\* nothing has been sent for the turn; the step that follows sends the
\* budget notice, which is not that answer, and closes the connection,
\* leaving the history and the last item as the turn wrote them; they are
\* still so once the connection is closed.
C30_ExhaustedTurnKeepsItsWrites ==
    [][\A c \in Conns :
          /\ pc'[c] = "exhausted" =>
                /\ ExhaustedTurnStored(c)'
                /\ hist_store'[session_id[c]] = local'[c].hist
                /\ hist_store'[session_id[c]][Len(local'[c].hist)].content =
                      local'[c].answer
                /\ turn'[c].sent = 0
                /\ lastOut'[c] = NoFrame
          /\ (pc[c] = "exhausted" /\ pc'[c] # pc[c]) =>
                /\ lastOut'[c] = WsOut(session_id[c], BUDGET_NOTICE)
                /\ lastOut'[c].answer # local[c].answer
                /\ turn'[c].sent = 1
                /\ turn'[c].outcome = "exhausted"
                /\ ws'[c].state = "closed"
                /\ hist_store' = hist_store
                /\ lastpid_store' = lastpid_store
          /\ turn'[c].outcome = "exhausted" =>
                /\ ExhaustedTurnStored(c)'
                /\ lastOut'[c] = WsOut(session_id[c], BUDGET_NOTICE)
                /\ lastOut'[c].answer #
                      hist_store'[session_id[c]]
                         [Len(hist_store'[session_id[c]])].content]_vars

\* the first question of a session has exhausted the budget: the
\* connection is closed after the notice, and the session has a history of
\* two messages and the item the turn's retrieval wrote
C30_Witness ==
    \E c \in Conns :
        /\ turn[c].outcome = "exhausted"
        /\ ws[c].state = "closed"
        /\ lastOut[c] = WsOut(session_id[c], BUDGET_NOTICE)
        /\ turn[c].hist0 = <<>>
        /\ Len(hist_store[session_id[c]]) = 2
        /\ turn[c].pid0 = ""
        /\ lastpid_store[session_id[c]] = "v1"

\* C31: with the scripts registered, a budget key in the store holds a
\* value from 0 to the budget and the session TTL, and the budget less the
\* tokens charged to the session since its key was last absent; that sum
\* is never above the budget.  A consume_tokens call signals exhaustion
\* exactly when the spend is greater than what the session has left: a
\* spend of no more than that (of exactly that too) succeeds and stores
\* what is left less the spend, 0 for an equal spend, with the TTL set
\* again; a call that signals exhaustion leaves the key as it was, value
\* and TTL.  Nothing but consume_tokens and the key's expiry changes a
\* budget key.
C31_BudgetNeverOverdrawn ==
    /\ [](\A c \in Conns :
             /\ turn[c].charged \in 0..SESSION_BUDGET
             /\ session_id[c] \in SessionIds =>
                   LET key == tok_store[session_id[c]]
                   IN  IF key.set
                       THEN /\ scripts
                            /\ key.val \in 0..SESSION_BUDGET
                            /\ key.ttl = SESSION_TTL
                            /\ key.val = SESSION_BUDGET - turn[c].charged
                       ELSE turn[c].charged = 0)
    /\ [][\A c \in Conns :
             IF turn'[c].consumes = turn[c].consumes + 1
             THEN scripts =>
                     LET key   == tok_store[session_id[c]]
                         key2  == tok_store'[session_id[c]]
                         spent == local[c].spent
                     IN  /\ turn'[c].exhausted <=> spent > Remaining(key)
                         /\ turn'[c].exhausted => key2 = key
                         /\ ~turn'[c].exhausted =>
                               /\ key2 = [set |-> TRUE,
                                          val |-> Remaining(key) - spent,
                                          ttl |-> SESSION_TTL]
                               /\ turn'[c].charged = turn[c].charged + spent
                               /\ spent = Remaining(key) => key2.val = 0
             ELSE session_id[c] \in SessionIds =>
                     LET key  == tok_store[session_id[c]]
                         key2 == tok_store'[session_id[c]]
                     IN  key2 # key => key.set /\ key2 = NoKeyTok]_vars

\* a second turn has spent exactly the 5000 tokens the session had left of
\* its budget after a first turn of 10000: the call succeeded and the key
\* holds 0
C31_Witness ==
    \E c \in Conns :
        /\ scripts
        /\ pc[c] = "reply"
        /\ turn[c].consumes = 1
        /\ ~turn[c].exhausted
        /\ local[c].spent = 5000
        /\ turn[c].charged = SESSION_BUDGET
        /\ tok_store[session_id[c]] =
              [set |-> TRUE, val |-> 0, ttl |-> SESSION_TTL]

\* C32: with the limiter's script registered, the rate check of a
\* validated message adds exactly one to the count of its address, and no
\* other step of the connection touches the count: whatever the turn ends
\* with (a refusal of the content filter, a cart reply, the off-topic
\* notice, an answer, or the close on the rate limit itself) it has made
\* one ip_throttle call, and a frame that fails validation none.  The
\* expiry is armed by the call that finds no key and counts 1, and by no
\* other: a key in the store was armed once, and a later message, passed
\* or refused, leaves its expiry as it is.
C32_EachValidMessageCountedOnce ==
    /\ [](\A ip \in Ips :
             IF scripts
             THEN ip_store[ip].n > 0 =>
                     /\ ip_store[ip].arms = 1
                     /\ ip_store[ip].ttl = IP_WINDOW_SEC
             ELSE ip_store[ip] = NoKeyIp)
    /\ [][\A c \in Conns :
             LET key  == ip_store[ClientHost(c)]
                 key2 == ip_store'[ClientHost(c)]
             IN  /\ IF turn'[c].throttles = turn[c].throttles + 1
                    THEN /\ turn[c].validated
                         /\ turn[c].throttles = 0
                         /\ scripts =>
                               /\ key2.n = key.n + 1
                               /\ key2.arms =
                                     IF key.n = 0 THEN 1 ELSE key.arms
                               /\ key2.ttl =
                                     IF key.n = 0 THEN IP_WINDOW_SEC
                                                  ELSE key.ttl
                               /\ turn'[c].outcome = "rate_limited" <=>
                                     key.n >= IP_LIMIT
                    ELSE pc'[c] # pc[c] => ip_store' = ip_store
                 /\ (turn[c].outcome = "pending"
                        /\ turn'[c].outcome # "pending") =>
                       /\ turn'[c].outcome \in
                             {"invalid", "rate_limited", "blocked",
                              "cart_ask", "cart_checkout", "off_topic",
                              "answered"}
                       /\ turn'[c].throttles =
                             IF turn'[c].outcome = "invalid" THEN 0 ELSE 1]_vars

\* the connection's first message armed the window and was answered; other
\* clients filled the window; its second message was counted as the
\* twenty-second, refused, and left the window's expiry as armed by the
\* first
C32_Witness ==
    \E c \in Conns :
        /\ scripts
        /\ reads = 2
        /\ turn[c].outcome = "rate_limited"
        /\ turn[c].throttles = 1
        /\ hist_store[session_id[c]] # <<>>
        /\ ip_store[ClientHost(c)] =
              [n |-> IP_LIMIT + 2, ttl |-> IP_WINDOW_SEC, arms |-> 1]

====
